---------------------------- MODULE Spec2Model ----------------------------
(***************************************************************************)
(* A model of the light-state reconciliation engine of the Telegram bot    *)
(* (src/unnamed/part_000, the final iteration of the server) over the      *)
(* Google-Sheets store (src/sheets.js) and the outage client               *)
(* (src/fetchData.cjs).                                                     *)
(*                                                                         *)
(* Time is counted in whole seconds: every timestamp the program persists  *)
(* is formatted 'dd.MM.yyyy HH:mm:ss'.  The clock advances in steps of      *)
(* minutes; what takes a second (a request, the queue's pause) happens     *)
(* inside one step.  A sheet cell that holds a time is the empty tuple     *)
(* (the empty string) or a one-element tuple <<t>>; a duration cell is the *)
(* empty tuple or <<h, m, s>> ('hh:mm:ss').                                *)
(***************************************************************************)
EXTENDS Integers, Sequences, FiniteSets, TLC

VARIABLES
    arg,                    \* input of the pure function under check
    res,                    \* its result
    now,                    \* wall clock, seconds
    sheet,                  \* the LightStates sheet: chat id -> row of cells
    pass,                   \* the evaluation pass (checkLightsStatus) in flight
    ping,                   \* the ping handlers (updatePingTime) in flight
    cmd,                    \* the bot command handlers in flight
    queue,                  \* TelegramQueue.queue
    processing,             \* TelegramQueue.processing
    batch,                  \* the tasks of the batch being awaited
    pausing,                \* the drain loop sleeps between two batches
    lastSentMessage,        \* chat id -> { text, t } of sendMessageDedup
    delivered,              \* the last call that reached the transport
    dtekCache,              \* key -> { v, t }
    dtekCheckTimestamps,    \* chat id -> ms of the last outage evaluation
    pinnedUpdateTimestamps, \* chat id -> time of the last pinned refresh
    modeWriteMemo,          \* chat id -> { mode, t }
    userRateLimits,         \* chat id -> time of the last accepted command
    rows,                   \* the data rows of the sheet, for the store on its own
    lightStateCache,        \* chat id -> { data, timestamp } of SheetsDB
    allStatesCache,         \* allStatesCache['all'] of SheetsDB
    calls                   \* the SheetsDB calls in flight

pureVars == <<arg, res>>
tgVars   == <<queue, processing, batch, pausing, lastSentMessage, delivered>>
memoVars == <<dtekCache, dtekCheckTimestamps, pinnedUpdateTimestamps, modeWriteMemo,
              userRateLimits>>
procVars == <<pass, ping, cmd>>
storeVars == <<rows, lightStateCache, allStatesCache, calls>>
vars     == <<arg, res, now, sheet, pass, ping, cmd, queue, processing, batch, pausing,
              lastSentMessage, delivered, dtekCache, dtekCheckTimestamps,
              pinnedUpdateTimestamps, modeWriteMemo, userRateLimits, rows,
              lightStateCache, allStatesCache, calls>>

-----------------------------------------------------------------------------
(* Program constants *)

PING_TIMEOUT_SEC == 180
DTEK_CHECK_MINUTES == 15
TELEGRAM_LIMIT == 25
MIN_PINNED_UPDATE_S == 30
DEDUP_WINDOW_S == 10
MODE_MEMO_S == 2
RATE_LIMIT_S == 1
DTEK_CACHE_TTL_S == DTEK_CHECK_MINUTES * 60
CACHE_TTL_S == 30
ALL_STATES_CACHE_TTL_S == 30

MODE_NONE == "none"
MODE_PING == "ping"
MODE_DTEK == "dtek_only"
MODE_FULL == "full"

NOT_SPECIFIED == "n/a"  \* the text 'Не указано'

-----------------------------------------------------------------------------
(* Strings and cells *)

\* String.prototype.trim on the strings of the model: " " stands for any
\* whitespace-only string, every other string has no surrounding whitespace.
Trim(s) == IF s = " " THEN "" ELSE s

\* A time cell: <<>> is '', <<-1>> is whitespace only, <<-2>> is text that no
\* format parses, <<t>> with t >= 0 is the formatted instant t.
IsBlankTime(c) == c = <<>> \/ c = <<-1>>
IsValidTime(c) == c # <<>> /\ c[1] >= 0

\* DateTime.toFormat('dd.MM.yyyy HH:mm:ss') of an instant.
FormatTime(t) == <<t>>

\* Duration.toFormat('hh:mm:ss'): hours are not wrapped at 24.
FormatDuration(d) == <<d \div 3600, (d % 3600) \div 60, d % 60>>
\* A parse that answers the current time for every text.
parseDateTimeNow(timeString, clock) == clock

parseDateTime(timeString, clock) ==
    IF IsBlankTime(timeString) THEN clock
    ELSE IF IsValidTime(timeString) THEN timeString[1]
    ELSE clock

-----------------------------------------------------------------------------
(* Mode classifier *)

\* A parsed row (SheetsDB.parseRow); exists = FALSE stands for the null that
\* getLightState returns when the sheet has no row for the chat.
NullRow ==
    [exists |-> FALSE, last_ping_time |-> <<>>, light_state |-> "",
     light_start_time |-> <<>>, previous_duration |-> <<>>,
     pinned_message_id |-> "", city |-> "", street |-> "", house_number |-> "",
     ignored |-> FALSE, mode |-> ""]

determineModeSwapped(row) ==
    IF ~row.exists THEN MODE_NONE
    ELSE LET hasAddress == Trim(row.city) # "" /\ Trim(row.street) # ""
             hasPing == ~IsBlankTime(row.last_ping_time)
         IN  IF ~hasAddress /\ ~hasPing THEN MODE_NONE
             ELSE IF ~hasAddress /\ hasPing THEN MODE_DTEK
             ELSE IF hasAddress /\ ~hasPing THEN MODE_PING
             ELSE MODE_FULL

\* A classification that trusts column K.
determineModeStored(row) == row.mode

determineMode(row) ==
    IF ~row.exists THEN MODE_NONE
    ELSE LET hasAddress == Trim(row.city) # "" /\ Trim(row.street) # ""
             hasPing == ~IsBlankTime(row.last_ping_time)
         IN  IF ~hasAddress /\ ~hasPing THEN MODE_NONE
             ELSE IF ~hasAddress /\ hasPing THEN MODE_PING
             ELSE IF hasAddress /\ ~hasPing THEN MODE_DTEK
             ELSE IF hasAddress /\ hasPing THEN MODE_FULL
             ELSE MODE_NONE

-----------------------------------------------------------------------------
(* Address/outage interpreter *)

\* The keys the outage source may use in its per-house map: house numbers and
\* one group key that the source's preset mapping can resolve a house to.
HouseKeys == {"12", "14", "G1"}

\* 'HH:mm dd.MM.yyyy' texts of the source, and what DateTime.fromFormat makes
\* of them (minutes of the day; -1: not valid).
ParseHM(s) ==
    CASE s = "10:00 01.01.2025" -> 600
      [] s = "14:00 01.01.2025" -> 840
      [] OTHER -> -1
FormatHM(m) ==
    CASE m = 600 -> "10:00 01.01.2025"
      [] m = 840 -> "14:00 01.01.2025"
      [] OTHER -> NOT_SPECIFIED

AbsentEntry ==
    [present |-> FALSE, sub_type |-> "", start_date |-> "", end_date |-> "",
     sub_type_reason |-> {}]

\* x.sub_type && x.sub_type.trim() || ... of the street-level scan
isActive(x) ==
    x.present /\ (Trim(x.sub_type) # "" \/ Trim(x.start_date) # "" \/ Trim(x.end_date) # "")

\* A reduce whose comparison is the wrong way round.
SetMinReversed(S) == CHOOSE x \in S : \A y \in S : x >= y

SetMin(S) == CHOOSE x \in S : \A y \in S : x <= y
SetMax(S) == CHOOSE x \in S : \A y \in S : x >= y

\* s || 'Не указано'
OrNotSpecified(s) == IF s = "" THEN NOT_SPECIFIED ELSE s

FailedSummary(kind) ==
    [inferredOff |-> FALSE,
     message |-> [kind |-> kind, type |-> "", start |-> "", end |-> "", reasons |-> {}],
     updateTimestamp |-> <<>>]

NoOutageSummary(updateTimestamp) ==
    [inferredOff |-> FALSE,
     message |-> [kind |-> "no_outage", type |-> "", start |-> "", end |-> "", reasons |-> {}],
     updateTimestamp |-> updateTimestamp]

\* The record of the per-house map that fetchAndSummarizeDtek reads for the
\* house: data[resolvedHomeKey] when the source resolved a key that is in the
\* map, data[house_number] otherwise, {} when that is missing.
HouseData(result, house_number) ==
    LET has(k) == k \in HouseKeys /\ result.data[k].present
        keyToUse == IF result.resolvedHomeKey # "" /\ has(result.resolvedHomeKey)
                    THEN result.resolvedHomeKey ELSE house_number
    IN  IF has(keyToUse) THEN result.data[keyToUse] ELSE AbsentEntry

\* A street-level scan that trusts the flag alone.
StreetSummaryTrustFlag(result) ==
    [inferredOff |-> TRUE,
     message |-> [kind |-> "street", type |-> "", start |-> NOT_SPECIFIED,
                  end |-> NOT_SPECIFIED, reasons |-> {NOT_SPECIFIED}],
     updateTimestamp |-> result.updateTimestamp]

StreetSummary(result) ==
    LET activeEntries == {k \in HouseKeys : isActive(result.data[k])}
        reasons == UNION {result.data[k].sub_type_reason : k \in activeEntries}
        starts == {ParseHM(Trim(result.data[k].start_date)) : k \in activeEntries} \ {-1}
        ends == {ParseHM(Trim(result.data[k].end_date)) : k \in activeEntries} \ {-1}
    IN  IF activeEntries = {} THEN NoOutageSummary(result.updateTimestamp)
        ELSE [inferredOff |-> TRUE,
              message |-> [kind |-> "street", type |-> "",
                           start |-> IF starts = {} THEN NOT_SPECIFIED ELSE FormatHM(SetMin(starts)),
                           end |-> IF ends = {} THEN NOT_SPECIFIED ELSE FormatHM(SetMax(ends)),
                           reasons |-> IF reasons = {} THEN {NOT_SPECIFIED} ELSE reasons],
              updateTimestamp |-> result.updateTimestamp]

\* result.outcome: "ok" (fetchData resolved to an object), "null" (it resolved
\* to null), "throw" (it rejected).  result.hasData = FALSE: the object has no
\* data field, and data[keyToUse] throws inside the try block.
fetchAndSummarizeDtek(result, house_number) ==
    IF result.outcome = "throw" THEN FailedSummary("error")
    ELSE IF result.outcome = "null" THEN FailedSummary("fetch_failed")
    ELSE IF ~result.hasData THEN FailedSummary("error")
    ELSE LET houseData == HouseData(result, house_number)
         IN  IF houseData.sub_type = "" /\ ~result.showCurOutageParam
                 THEN NoOutageSummary(result.updateTimestamp)
             ELSE IF houseData.sub_type = "" /\ result.showCurOutageParam
                 THEN StreetSummary(result)
             ELSE [inferredOff |-> TRUE,
                   message |-> [kind |-> "house",
                                type |-> OrNotSpecified(houseData.sub_type),
                                start |-> OrNotSpecified(houseData.start_date),
                                end |-> OrNotSpecified(houseData.end_date),
                                reasons |-> IF houseData.sub_type_reason = {}
                                            THEN {NOT_SPECIFIED}
                                            ELSE houseData.sub_type_reason],
                   updateTimestamp |-> result.updateTimestamp]

-----------------------------------------------------------------------------
(* Bounds of the model *)

MaxElapsed == 181       \* the clock runs from StartTime to StartTime + MaxElapsed
MaxQueue == 2           \* tasks held by the TelegramQueue (waiting or in flight)
MaxRows == 2            \* data rows of the sheet, for the store on its own
MaxCalls == 2           \* SheetsDB calls in flight at a time
MaxBurst == 27          \* tasks held by the TelegramQueue in a burst of adds

\* The process starts long after the epoch: a timestamp defaulted to 0
\* (dtekCheckTimestamps.get(..) || 0) is older than every window.
StartTime == DTEK_CACHE_TTL_S + PING_TIMEOUT_SEC + 1
TickSteps == {PING_TIMEOUT_SEC, PING_TIMEOUT_SEC + 1}

\* Chat ids of the sheet; the server as a whole is run for the first one, the
\* pass over several rows for both.
Chats == {"c1", "c2"}
MainChats == {"c1"}
CITY == "Odesa"
STREET == "Main"
HOUSE == "12"

-----------------------------------------------------------------------------
(* The store: SheetsDB over the LightStates sheet *)

\* lightState ? 'TRUE' : 'FALSE'
BoolCell(b) == IF b THEN "TRUE" ELSE "FALSE"

\* SheetsDB.parseRow: a missing light_state stays falsy without being the
\* boolean false; a missing mode reads as 'full'.
parseRow(cells) ==
    IF ~cells.exists THEN NullRow
    ELSE [cells EXCEPT !.mode = IF cells.mode = "" THEN MODE_FULL ELSE cells.mode]

\* A light_state that reads as On whatever the cell holds.
LightOnAlways(row) == TRUE

\* JavaScript truthiness of the parsed light_state
LightOn(row) == row.light_state = "TRUE"

\* db.getLightState
getLightState(sh, c) == parseRow(sh[c])

\* previousDuration ? previousDuration.toFormat('hh:mm:ss') : '' ; a duration
\* argument is <<>> (null) or <<seconds>>.
NoDuration == <<>>
DurationCell(previousDuration) ==
    IF previousDuration = <<>> THEN <<>> ELSE FormatDuration(previousDuration[1])

\* SheetsDB.saveLightState: columns B..E of the chat's row, or a new row
\* (columns A..I) when the chat has none.
saveLightState(sh, c, lastPingTime, lightState, lightStartTime, previousDuration) ==
    IF sh[c].exists
    THEN [sh EXCEPT ![c].last_ping_time = FormatTime(lastPingTime),
                    ![c].light_state = BoolCell(lightState),
                    ![c].light_start_time = FormatTime(lightStartTime),
                    ![c].previous_duration = DurationCell(previousDuration)]
    ELSE [sh EXCEPT ![c] = [NullRow EXCEPT
                    !.exists = TRUE,
                    !.last_ping_time = FormatTime(lastPingTime),
                    !.light_state = BoolCell(lightState),
                    !.light_start_time = FormatTime(lightStartTime),
                    !.previous_duration = DurationCell(previousDuration)]]

\* SheetsDB.saveLightStatePreservePing: saveLightState without column B.
saveLightStatePreservePing(sh, c, lightState, lightStartTime, previousDuration) ==
    IF sh[c].exists
    THEN [sh EXCEPT ![c].light_state = BoolCell(lightState),
                    ![c].light_start_time = FormatTime(lightStartTime),
                    ![c].previous_duration = DurationCell(previousDuration)]
    ELSE [sh EXCEPT ![c] = [NullRow EXCEPT
                    !.exists = TRUE,
                    !.light_state = BoolCell(lightState),
                    !.light_start_time = FormatTime(lightStartTime),
                    !.previous_duration = DurationCell(previousDuration)]]

\* SheetsDB.updateField: one cell of an existing row; no row, no write.
setIgnored(sh, c, ignored) ==
    IF sh[c].exists THEN [sh EXCEPT ![c].ignored = ignored] ELSE sh

setMode(sh, c, mode) ==
    IF sh[c].exists THEN [sh EXCEPT ![c].mode = mode] ELSE sh

savePinnedMessageId(sh, c, id) ==
    IF sh[c].exists THEN [sh EXCEPT ![c].pinned_message_id = id] ELSE sh

\* SheetsDB.initializeUser: a blank row when the chat has none.
initializeUser(sh, c) ==
    IF sh[c].exists THEN sh ELSE [sh EXCEPT ![c] = [NullRow EXCEPT !.exists = TRUE]]

-----------------------------------------------------------------------------
(* Notification dispatcher: sendMessageDedup and the TelegramQueue *)

NoInfo == [kind |-> "", type |-> "", start |-> "", end |-> "", reasons |-> {}]
NoText == [kind |-> "", mode |-> "", dur |-> <<>>, info |-> NoInfo]

\* The texts the reconciler sends
OffText(onDuration) == [NoText EXCEPT !.kind = "off", !.dur = FormatDuration(onDuration)]
OnText(mode, offDuration) ==
    [NoText EXCEPT !.kind = "on", !.mode = mode, !.dur = FormatDuration(offDuration)]
DtekOffText == [NoText EXCEPT !.kind = "off"]
DtekOnText == [NoText EXCEPT !.kind = "on"]
DtekAutoText(message) == [NoText EXCEPT !.kind = "dtek_auto", !.info = message]
DtekReplyText(message) == [NoText EXCEPT !.kind = "dtek_reply", !.info = message]

NoOwner == <<>>

\* `${city}|${street}|${house_number || ''}`
dtekKey(city, street, house_number) == city \o "|" \o street \o "|" \o house_number

\* () => sendMessageDedup(chatId, text), handed to telegramQueue.add
MsgTask(c, text, owner) ==
    [kind |-> "msg", chat |-> c, text |-> text, owner |-> owner,
     hasPinned |-> FALSE, needsStart |-> FALSE, key |-> "", t |-> 0]

\* The closure updatePinnedMessage hands to telegramQueue.add; of the row it
\* captured it reads pinned_message_id and, through formatMessage, whether the
\* row has a start time and which mode it is in.
PinTask(c, row, owner) ==
    [kind |-> "pin", chat |-> c, text |-> NoText, owner |-> owner,
     hasPinned |-> row.pinned_message_id # "",
     needsStart |-> IsBlankTime(row.light_start_time) /\ determineMode(row) = MODE_DTEK,
     key |-> dtekKey(row.city, row.street, Trim(row.house_number)),
     t |-> 0]

\* sendMessageDedup, up to its await: is the text a repeat inside the window?
IsDuplicate(lsm, task, clock) ==
    /\ task.kind = "msg"
    /\ lsm[task.chat].has
    /\ lsm[task.chat].text = task.text
    /\ clock - lsm[task.chat].t < DEDUP_WINDOW_S

\* batch.map(({fn}) => fn()): every task of the batch runs up to its first
\* transport call; a repeat returns null at once and awaits nothing.
StartBatch(tasks, lsm, clock) ==
    LET started == [i \in 1..Len(tasks) |->
        IF tasks[i].kind = "msg" THEN [tasks[i] EXCEPT !.t = clock] ELSE tasks[i]]
    IN  SelectSeq(started, LAMBDA task : ~IsDuplicate(lsm, task, clock))

Take(q, n) == SubSeq(q, 1, IF Len(q) < n THEN Len(q) ELSE n)

\* The TelegramQueue as one value: { queue, processing, batch }
Tq == [queue |-> queue, processing |-> processing, batch |-> batch]

\* An add whose process() does not look at the processing flag: a second
\* drain loop starts what is queued next to the batch in flight.
TqAddUnguarded(tq, task, clock) ==
    [queue |-> <<>>, processing |-> TRUE,
     batch |-> tq.batch \o StartBatch(Append(tq.queue, task), lastSentMessage, clock)]

\* TelegramQueue.add: push, then process(), which returns at once while a
\* drain loop is active and otherwise starts a batch with what is queued.
TqAdd(tq, task, clock) ==
    IF tq.processing THEN [tq EXCEPT !.queue = Append(@, task)]
    ELSE LET b == StartBatch(Append(tq.queue, task), lastSentMessage, clock)
         IN  IF b = <<>> THEN tq
             ELSE [queue |-> <<>>, processing |-> TRUE, batch |-> b]

SetTq(tq) ==
    /\ Len(tq.queue) + Len(tq.batch) <= MaxQueue * pass.of
    /\ queue' = tq.queue
    /\ processing' = tq.processing
    /\ batch' = tq.batch

\* Is a task of this owner still waiting or in flight?  (await telegramQueue.add)
Pending(owner) ==
    \/ \E i \in 1..Len(queue) : queue[i].owner = owner
    \/ \E i \in 1..Len(batch) : batch[i].owner = owner

\* updatePinnedMessage(chatId, undefined, force, rowHint), up to the add
updatePinnedMessage(tq, c, force, row, clock) ==
    IF ~row.exists \/ row.ignored THEN tq
    ELSE IF ~force /\ clock - pinnedUpdateTimestamps[c] < MIN_PINNED_UPDATE_S THEN tq
    ELSE TqAdd(tq, PinTask(c, row, NoOwner), clock)

\* notifyStatusChange, up to its await of the message task: the row is read
\* again for its ignored flag.
notifyStatusChange(tq, c, text, owner, clock) ==
    LET row == getLightState(sheet, c)
    IN  IF row.ignored THEN tq
        ELSE TqAdd(updatePinnedMessage(tq, c, TRUE, row, clock), MsgTask(c, text, owner), clock)

\* The transport: delivered holds the last call that reached it.
Log(d, entry) == entry

NoCall == [chat |-> "", op |-> "", text |-> NoText]
Sent(c, text) == [chat |-> c, op |-> "send", text |-> text]
Edited(c) == [chat |-> c, op |-> "edit", text |-> NoText]
ReplyText(kind) == [NoText EXCEPT !.kind = kind]

RemoveAt(q, i) == SubSeq(q, 1, i - 1) \o SubSeq(q, i + 1, Len(q))

\* formatMessage inside the pinned task (short, cache only), for a dtek_only
\* row without a start time: the cached summary's updateTimestamp is stored as
\* the start time, with the state the summary implies.
FormatMessageWrite(sh, task) ==
    IF task.needsStart /\ task.key \in DOMAIN dtekCache /\ dtekCache[task.key].has
       /\ IsValidTime(dtekCache[task.key].v.updateTimestamp)
    THEN saveLightStatePreservePing(sh, task.chat, ~dtekCache[task.key].v.inferredOff,
                                    dtekCache[task.key].v.updateTimestamp[1], NoDuration)
    ELSE sh

\* A task of the batch settles: the transport call returns.
\*   message: bot.sendMessage resolved, lastSentMessage is set with the time of
\*            the check;
\*   pinned:  the live-status message was edited, or sent, pinned and its id
\*            saved; pinnedUpdateTimestamps is set.
\* With the last task of the batch Promise.all settles and the drain loop goes
\* on: it ends when nothing is queued, and sleeps a second otherwise.
TaskDone(i) ==
    /\ i \in 1..Len(batch)
    /\ LET task == batch[i]
       IN  /\ batch' = RemoveAt(batch, i)
           /\ IF task.kind = "msg"
              THEN /\ delivered' = Log(delivered, Sent(task.chat, task.text))
                   /\ lastSentMessage' = [lastSentMessage EXCEPT ![task.chat] =
                                             [has |-> TRUE, text |-> task.text, t |-> task.t]]
                   /\ UNCHANGED <<sheet, pinnedUpdateTimestamps>>
              ELSE /\ delivered' = Log(delivered, IF task.hasPinned THEN Edited(task.chat)
                                                  ELSE Sent(task.chat, ReplyText("status")))
                   /\ sheet' = IF task.hasPinned THEN FormatMessageWrite(sheet, task)
                               ELSE savePinnedMessageId(FormatMessageWrite(sheet, task),
                                                        task.chat, "m1")
                   /\ pinnedUpdateTimestamps' = [pinnedUpdateTimestamps EXCEPT ![task.chat] = now]
                   /\ UNCHANGED lastSentMessage
    /\ IF Len(batch) = 1
       THEN processing' = (queue # <<>>) /\ pausing' = (queue # <<>>)
       ELSE UNCHANGED <<processing, pausing>>
    /\ UNCHANGED <<pureVars, storeVars, now, procVars, queue, dtekCache, dtekCheckTimestamps,
                   modeWriteMemo, userRateLimits>>

\* A drain loop that ends after its pause without looking at the queue.
NextBatchStops ==
    /\ processing /\ pausing
    /\ processing' = FALSE
    /\ pausing' = FALSE
    /\ UNCHANGED <<pureVars, storeVars, now, sheet, procVars, queue, batch, lastSentMessage,
                   delivered, memoVars>>

\* The pause is over: the next batch of at most TELEGRAM_LIMIT tasks starts.
\* A batch of repeats only settles at once.
NextBatch ==
    /\ processing /\ pausing
    /\ LET started == StartBatch(Take(queue, TELEGRAM_LIMIT), lastSentMessage, now)
           rest == SubSeq(queue, Len(Take(queue, TELEGRAM_LIMIT)) + 1, Len(queue))
       IN  /\ batch' = started
           /\ queue' = rest
           /\ pausing' = (started = <<>> /\ rest # <<>>)
           /\ processing' = (started # <<>> \/ rest # <<>>)
    /\ UNCHANGED <<pureVars, storeVars, now, sheet, procVars, lastSentMessage, delivered, memoVars>>

-----------------------------------------------------------------------------
(* Outage summary cache *)

\* Addresses that are looked up: a whole street, a house of it, and two
\* addresses that are different as (city, street, house) and whose parts hold
\* the separator of the key.
AddressTriples ==
    { <<CITY, STREET, "">>, <<CITY, STREET, HOUSE>>,
      <<CITY, STREET, "12|1">>, <<CITY, "Main|12", "1">> }
DtekKeys == {dtekKey(t[1], t[2], t[3]) : t \in AddressTriples}

NoSummary == FailedSummary("")

OneEntry(e) == [k \in HouseKeys |-> IF k = HOUSE THEN e ELSE AbsentEntry]
Planned ==
    [present |-> TRUE, sub_type |-> "planned", start_date |-> "10:00 01.01.2025",
     end_date |-> "14:00 01.01.2025", sub_type_reason |-> {"repair"}]

\* What fetchData can resolve to for the address of the model; the source
\* sets its street-level flag when it reports an outage.
FetchResult(outcome, entry, ts) ==
    [outcome |-> outcome, hasData |-> TRUE, data |-> OneEntry(entry),
     updateTimestamp |-> ts, resolvedHomeKey |-> "", showCurOutageParam |-> entry.present]

FetchResults ==
    { FetchResult("null", AbsentEntry, <<>>),
      FetchResult("throw", AbsentEntry, <<>>),
      FetchResult("ok", Planned, <<StartTime>>),
      FetchResult("ok", AbsentEntry, <<StartTime>>),
      FetchResult("ok", AbsentEntry, <<>>),
      \* the source's clock (or its time zone) is ahead of the server's
      FetchResult("ok", AbsentEntry, <<StartTime + MaxElapsed + 1>>) }

\* A cache that keeps what it has when the fetch fails.
getDtekSummaryCachedKeepStale(cache, city, street, house_number, clock) ==
    LET key == dtekKey(city, street, house_number)
    IN  IF cache[key].has /\ clock - cache[key].t < DTEK_CACHE_TTL_S
        THEN {[summary |-> cache[key].v, cache |-> cache, fetched |-> FALSE]}
        ELSE {LET summary == fetchAndSummarizeDtek(r, house_number)
                  failed == summary.message.kind \in {"fetch_failed", "error"}
              IN  [summary |-> IF failed /\ cache[key].has THEN cache[key].v ELSE summary,
                   cache |-> IF failed THEN cache
                             ELSE [cache EXCEPT ![key] =
                                      [has |-> TRUE, v |-> summary, t |-> clock]],
                   fetched |-> TRUE]
              : r \in FetchResults}

\* getDtekSummaryCached(city, street, house_number, { allowFetch: true }): the
\* summaries it can return, each with the cache it leaves and whether
\* fetchAndSummarizeDtek was called.
getDtekSummaryCached(cache, city, street, house_number, clock) ==
    LET key == dtekKey(city, street, house_number)
    IN  IF cache[key].has /\ clock - cache[key].t < DTEK_CACHE_TTL_S
        THEN {[summary |-> cache[key].v, cache |-> cache, fetched |-> FALSE]}
        ELSE {[summary |-> fetchAndSummarizeDtek(r, house_number),
               cache |-> [cache EXCEPT ![key] =
                             [has |-> TRUE, v |-> fetchAndSummarizeDtek(r, house_number),
                              t |-> clock]],
               fetched |-> TRUE]
              : r \in FetchResults}

getDtekSummaryForRow(cache, row, clock) ==
    getDtekSummaryCached(cache, row.city, row.street, Trim(row.house_number), clock)

\* isDtekCheckDue(chatId)
isDtekCheckDue(c) == (now - dtekCheckTimestamps[c]) >= DTEK_CHECK_MINUTES * 60

\* updateModeIfNeeded(chatId, currentMode, rowHint): the sheet and the memo it
\* leaves.
updateModeIfNeeded(sh, memo, c, currentMode, row, clock) ==
    LET actualMode == determineMode(row)
    IN  IF ~row.exists \/ currentMode = actualMode
            \/ (memo[c].mode = actualMode /\ clock - memo[c].t < MODE_MEMO_S)
        THEN [sheet |-> sh, memo |-> memo]
        ELSE [sheet |-> setMode(sh, c, actualMode),
              memo |-> [memo EXCEPT ![c] = [mode |-> actualMode, t |-> clock]]]

-----------------------------------------------------------------------------
(* State reconciler: checkLightsStatus, handlePingTimeout, applyDtekSummary *)

\* secondsSinceLastPing(row, now) > PING_TIMEOUT_SEC; an empty last_ping_time
\* counts as an infinite gap.
PingTimedOutInclusive(row, passNow, clock) ==
    \/ IsBlankTime(row.last_ping_time)
    \/ passNow - parseDateTime(row.last_ping_time, clock) >= PING_TIMEOUT_SEC

PingTimedOut(row, passNow, clock) ==
    \/ IsBlankTime(row.last_ping_time)
    \/ passNow - parseDateTime(row.last_ping_time, clock) > PING_TIMEOUT_SEC

IdleTask == [pc |-> "done", mode |-> "", dur |-> 0, start |-> 0, summary |-> NoSummary,
             changed |-> FALSE]
\* id, of: this call of checkLightsStatus is call id of the of calls that can
\* be in flight together.
IdlePass == [id |-> 1, of |-> 1, running |-> FALSE, now |-> 0, rows |-> [c \in Chats |-> NullRow],
             task |-> [c \in Chats |-> IdleTask]]

\* The caller that awaits a task of the queue: the row closure of one call of
\* checkLightsStatus.
PassOwner(c) == <<"pass", pass.id, c>>

\* checkLightsStatus starts: now is taken and getAllLightStates answers; one
\* task per row is handed to parallelLimit.  setInterval starts one pass per
\* clock step.
PassStart ==
    /\ ~pass.running
    /\ pass.now # now
    /\ pass' = [id |-> pass.id, of |-> pass.of, running |-> TRUE, now |-> now,
                rows |-> [c \in Chats |-> parseRow(sheet[c])],
                task |-> [c \in Chats |->
                            IF sheet[c].exists THEN [IdleTask EXCEPT !.pc = "start"]
                            ELSE IdleTask]]
    /\ UNCHANGED <<pureVars, storeVars, now, sheet, ping, cmd, tgVars, memoVars>>

\* applyDtekSummary: changed = (summary.inferredOff === row.light_state)
Disagrees(summary, row) == BoolCell(summary.inferredOff) = row.light_state

\* A row's task, from its start to its first store write or to its end:
\* the ignored/city filter, determineMode, updateModeIfNeeded, and then
\*   dtek_only: isDtekCheckDue, getDtekSummaryForRow, the decision of
\*              applyDtekSummary;
\*   full/ping: the decision of handlePingTimeout;
\* a task that decides for no write refreshes the pinned message and ends.
EvalStart(c) ==
    /\ pass.running /\ pass.task[c].pc = "start"
    /\ LET row == pass.rows[c]
           mode == determineMode(row)
           um == updateModeIfNeeded(sheet, modeWriteMemo, c, row.mode, row, now)
           refresh1 == updatePinnedMessage(Tq, c, FALSE, row, now)
           refresh2 == updatePinnedMessage(refresh1, c, FALSE, row, now)
           end(t) == pass' = [pass EXCEPT !.task[c] = t]
       IN  IF row.ignored \/ Trim(row.city) = ""
           THEN /\ end(IdleTask)
                /\ UNCHANGED <<sheet, tgVars, memoVars>>
           ELSE /\ sheet' = um.sheet
                /\ modeWriteMemo' = um.memo
                /\ UNCHANGED <<pausing, lastSentMessage, delivered, dtekCheckTimestamps,
                               pinnedUpdateTimestamps, userRateLimits>>
                /\ IF mode = MODE_DTEK
                   THEN IF isDtekCheckDue(c)
                        THEN /\ \E o \in getDtekSummaryForRow(dtekCache, row, now) :
                                  /\ dtekCache' = o.cache
                                  /\ end([pc |-> "apply", mode |-> mode,
                                          start |-> parseDateTime(row.light_start_time, now),
                                          dur |-> pass.now - parseDateTime(row.light_start_time, now),
                                          summary |-> o.summary,
                                          changed |-> Disagrees(o.summary, row)])
                             /\ UNCHANGED <<queue, processing, batch>>
                        ELSE /\ end(IdleTask)
                             /\ SetTq(refresh1)
                             /\ UNCHANGED dtekCache
                   ELSE /\ UNCHANGED dtekCache
                        /\ IF mode \in {MODE_FULL, MODE_PING}
                           THEN IF PingTimedOut(row, pass.now, now) /\ LightOn(row)
                                THEN /\ end([IdleTask EXCEPT !.pc = "save_off", !.mode = mode,
                                               !.dur = pass.now - parseDateTime(row.light_start_time, now)])
                                     /\ UNCHANGED <<queue, processing, batch>>
                                ELSE /\ end(IdleTask)
                                     /\ SetTq(refresh2)
                           ELSE /\ end(IdleTask)
                                /\ SetTq(refresh1)
    /\ UNCHANGED <<pureVars, storeVars, now, ping, cmd>>

\* A handlePingTimeout that goes on to the notification without the write.
SaveOffUnwritten(c) ==
    /\ pass.running /\ pass.task[c].pc = "save_off"
    /\ pass' = [pass EXCEPT !.task[c].pc = "notify"]
    /\ UNCHANGED <<pureVars, storeVars, now, sheet, ping, cmd, tgVars, memoVars>>

\* handlePingTimeout: db.saveLightState(chat_id, now, false, now, onDuration)
\* has written the row.
SaveOff(c) ==
    /\ pass.running /\ pass.task[c].pc = "save_off"
    /\ sheet' = saveLightState(sheet, c, pass.now, FALSE, pass.now, <<pass.task[c].dur>>)
    /\ pass' = [pass EXCEPT !.task[c].pc = "notify"]
    /\ UNCHANGED <<pureVars, storeVars, now, ping, cmd, tgVars, memoVars>>

\* applyDtekSummary: db.saveLightStatePreservePing has written the row.  A
\* summary that agrees with the row rewrites it and refreshes the pinned
\* message; the task then marks the chat checked and ends.
Apply(c) ==
    /\ pass.running /\ pass.task[c].pc = "apply"
    /\ LET t == pass.task[c]
           row == pass.rows[c]
       IN  IF t.changed
           THEN /\ sheet' = IF t.summary.inferredOff
                            THEN saveLightStatePreservePing(sheet, c, FALSE, pass.now, <<t.dur>>)
                            ELSE saveLightStatePreservePing(sheet, c, TRUE, pass.now, NoDuration)
                /\ pass' = [pass EXCEPT !.task[c].pc = "notify"]
                /\ UNCHANGED <<tgVars, dtekCheckTimestamps>>
           ELSE /\ sheet' = saveLightStatePreservePing(sheet, c, LightOn(row), t.start, NoDuration)
                /\ SetTq(updatePinnedMessage(Tq, c, FALSE, row, now))
                /\ dtekCheckTimestamps' = [dtekCheckTimestamps EXCEPT ![c] = now]
                /\ pass' = [pass EXCEPT !.task[c] = IdleTask]
                /\ UNCHANGED <<pausing, lastSentMessage, delivered>>
    /\ UNCHANGED <<pureVars, storeVars, now, ping, cmd, dtekCache, pinnedUpdateTimestamps, modeWriteMemo,
                   userRateLimits>>

\* The text of the status-change notification of a task
StatusText(t) ==
    IF t.mode = MODE_DTEK
    THEN (IF t.summary.inferredOff THEN DtekOffText ELSE DtekOnText)
    ELSE OffText(t.dur)

\* notifyStatusChange after the write: the row is read again, an ignored chat
\* gets nothing, any other gets a forced pinned refresh and the message.
Notify(c) ==
    /\ pass.running /\ pass.task[c].pc = "notify"
    /\ SetTq(notifyStatusChange(Tq, c, StatusText(pass.task[c]), PassOwner(c), now))
    /\ pass' = [pass EXCEPT !.task[c].pc = "await_msg"]
    /\ UNCHANGED <<pureVars, storeVars, now, sheet, ping, cmd, pausing, lastSentMessage, delivered,
                   memoVars>>

\* getDtekInfo(chatId, updateState): the texts it can return, each with the
\* cache and the sheet it leaves; wrote tells whether the state was updated.
Hint(kind) == [NoInfo EXCEPT !.kind = kind]

getDtekInfo(sh, cache, c, updateState, clock) ==
    LET row == getLightState(sh, c)
        mode == determineMode(row)
        out(message) == [message |-> message, cache |-> cache, sheet |-> sh, wrote |-> FALSE]
    IN  IF ~row.exists THEN {out(Hint("no_profile"))}
        ELSE IF row.city = "" \/ row.street = "" THEN {out(Hint("need_address"))}
        ELSE IF mode = MODE_PING THEN {out(Hint("ping_only"))}
        ELSE { IF updateState /\ mode # MODE_PING /\ IsValidTime(o.summary.updateTimestamp)
               THEN [message |-> o.summary.message, cache |-> o.cache,
                     sheet |-> saveLightStatePreservePing(sh, c, ~o.summary.inferredOff,
                                                          o.summary.updateTimestamp[1], NoDuration),
                     wrote |-> TRUE]
               ELSE [message |-> o.summary.message, cache |-> o.cache, sheet |-> sh,
                     wrote |-> FALSE]
               : o \in getDtekSummaryForRow(cache, row, clock) }

\* The status message has settled.  full: getDtekInfo(chat_id, false, false)
\* and the advisory message; dtek_only: the advisory message of a changed
\* state; ping: the task is over.
AwaitMsg(c) ==
    /\ pass.running /\ pass.task[c].pc = "await_msg"
    /\ ~Pending(PassOwner(c))
    /\ LET t == pass.task[c]
       IN  IF t.mode = MODE_FULL
           THEN \E o \in getDtekInfo(sheet, dtekCache, c, FALSE, now) :
                   /\ dtekCache' = o.cache
                   /\ sheet' = o.sheet
                   /\ SetTq(TqAdd(Tq, MsgTask(c, DtekAutoText(o.message), PassOwner(c)), now))
                   /\ pass' = [pass EXCEPT !.task[c].pc = "await_auto"]
           ELSE IF t.mode = MODE_DTEK
           THEN /\ SetTq(TqAdd(Tq, MsgTask(c, DtekAutoText(t.summary.message), PassOwner(c)), now))
                /\ pass' = [pass EXCEPT !.task[c].pc = "await_auto"]
                /\ UNCHANGED <<sheet, dtekCache>>
           ELSE /\ pass' = [pass EXCEPT !.task[c] = IdleTask]
                /\ UNCHANGED <<sheet, dtekCache, queue, processing, batch>>
    /\ UNCHANGED <<pureVars, storeVars, now, ping, cmd, pausing, lastSentMessage, delivered,
                   dtekCheckTimestamps, pinnedUpdateTimestamps, modeWriteMemo, userRateLimits>>

\* The advisory message has settled; a dtek_only task marks the chat checked.
AwaitAuto(c) ==
    /\ pass.running /\ pass.task[c].pc = "await_auto"
    /\ ~Pending(PassOwner(c))
    /\ dtekCheckTimestamps' = IF pass.task[c].mode = MODE_DTEK
                              THEN [dtekCheckTimestamps EXCEPT ![c] = now]
                              ELSE dtekCheckTimestamps
    /\ pass' = [pass EXCEPT !.task[c] = IdleTask]
    /\ UNCHANGED <<pureVars, storeVars, now, sheet, ping, cmd, tgVars, dtekCache, pinnedUpdateTimestamps,
                   modeWriteMemo, userRateLimits>>

\* Promise.all has settled: checkLightsStatus returns.
PassEnd ==
    /\ pass.running
    /\ \A c \in Chats : pass.task[c].pc = "done"
    /\ pass' = [pass EXCEPT !.running = FALSE]
    /\ UNCHANGED <<pureVars, storeVars, now, sheet, ping, cmd, tgVars, memoVars>>

-----------------------------------------------------------------------------
(* Ping handler: updatePingTime *)

IdlePing == [pc |-> "idle", now |-> 0, row |-> NullRow, mode |-> "", start |-> 0]

PingOwner(c) == <<"ping", c>>

\* GET /ping: the row is read; an ignored chat ends the handler.  For a row
\* that exists the handler goes on to updateModeIfNeeded and reads the start
\* time; now is taken here.  A device pings once per clock step.
PingRead(c) ==
    /\ ping[c].pc = "idle"
    /\ sheet[c].last_ping_time # FormatTime(now)
    /\ LET row == getLightState(sheet, c)
           um == updateModeIfNeeded(sheet, modeWriteMemo, c, row.mode, row, now)
       IN  IF row.ignored
           THEN UNCHANGED <<ping, sheet, modeWriteMemo>>
           ELSE IF ~row.exists
           THEN /\ ping' = [ping EXCEPT ![c] = [IdlePing EXCEPT !.pc = "create", !.now = now]]
                /\ UNCHANGED <<sheet, modeWriteMemo>>
           ELSE /\ ping' = [ping EXCEPT ![c] =
                              [pc |-> "save", now |-> now, row |-> row,
                               mode |-> determineMode(row),
                               start |-> parseDateTime(row.light_start_time, now)]]
                /\ sheet' = um.sheet
                /\ modeWriteMemo' = um.memo
    /\ UNCHANGED <<pureVars, storeVars, now, pass, cmd, tgVars, dtekCache, dtekCheckTimestamps,
                   pinnedUpdateTimestamps, userRateLimits>>

\* A chat without a row: saveLightState(chatId, now, true, now, null) appends
\* it, setMode stores 'ping', the pinned message is requested and the greeting
\* is sent straight to the transport.
PingCreate(c) ==
    /\ ping[c].pc = "create"
    /\ LET created == setMode(saveLightState(sheet, c, ping[c].now, TRUE, ping[c].now, NoDuration),
                              c, MODE_PING)
       IN  /\ sheet' = created
           /\ SetTq(updatePinnedMessage(Tq, c, FALSE, getLightState(created, c), now))
    /\ delivered' = Log(delivered, Sent(c, ReplyText("greeting")))
    /\ ping' = [ping EXCEPT ![c] = IdlePing]
    /\ UNCHANGED <<pureVars, storeVars, now, pass, cmd, pausing, lastSentMessage, memoVars>>

\* The write of the ping.  On: saveLightState(chatId, now, true,
\* lightStartTime, null) and a pinned refresh, which ends the handler.
\* Off: saveLightState(chatId, now, true, now, null), then the notification.
PingSave(c) ==
    /\ ping[c].pc = "save"
    /\ LET p == ping[c]
       IN  IF LightOn(p.row)
           THEN /\ sheet' = saveLightState(sheet, c, p.now, TRUE, p.start, NoDuration)
                /\ SetTq(updatePinnedMessage(Tq, c, FALSE, p.row, now))
                /\ ping' = [ping EXCEPT ![c] = IdlePing]
           ELSE /\ sheet' = saveLightState(sheet, c, p.now, TRUE, p.now, NoDuration)
                /\ ping' = [ping EXCEPT ![c].pc = "notify"]
                /\ UNCHANGED <<queue, processing, batch>>
    /\ UNCHANGED <<pureVars, storeVars, now, pass, cmd, pausing, lastSentMessage, delivered, memoVars>>

\* notifyStatusChange with the On text and the Off duration now - lightStartTime
PingNotify(c) ==
    /\ ping[c].pc = "notify"
    /\ SetTq(notifyStatusChange(Tq, c, OnText(ping[c].mode, ping[c].now - ping[c].start),
                                PingOwner(c), now))
    /\ ping' = [ping EXCEPT ![c] = IdlePing]
    /\ UNCHANGED <<pureVars, storeVars, now, sheet, pass, cmd, pausing, lastSentMessage, delivered,
                   memoVars>>

-----------------------------------------------------------------------------
(* Bot commands *)

\* checkRateLimit(chatId)
checkRateLimit(c) == ~(userRateLimits[c] # 0 /\ now - userRateLimits[c] < RATE_LIMIT_S)

\* /stop: setIgnored(chatId, true) and the reply
Stop(c) ==
    /\ checkRateLimit(c)
    /\ userRateLimits' = [userRateLimits EXCEPT ![c] = now]
    /\ sheet' = setIgnored(sheet, c, TRUE)
    /\ delivered' = Log(delivered, Sent(c, ReplyText("stopped")))
    /\ UNCHANGED <<pureVars, storeVars, now, procVars, queue, processing, batch, pausing,
                   lastSentMessage, dtekCache, dtekCheckTimestamps, pinnedUpdateTimestamps,
                   modeWriteMemo>>

\* /start: setIgnored(chatId, false), initializeUser and the reply
Start(c) ==
    /\ checkRateLimit(c)
    /\ userRateLimits' = [userRateLimits EXCEPT ![c] = now]
    /\ sheet' = initializeUser(setIgnored(sheet, c, FALSE), c)
    /\ delivered' = Log(delivered, Sent(c, ReplyText("welcome")))
    /\ UNCHANGED <<pureVars, storeVars, now, procVars, queue, processing, batch, pausing,
                   lastSentMessage, dtekCache, dtekCheckTimestamps, pinnedUpdateTimestamps,
                   modeWriteMemo>>

\* /dtek, up to its first await: the rate limit, the row, the ignored filter
DtekCmdStart(c) ==
    /\ cmd[c] = "idle"
    /\ checkRateLimit(c)
    /\ userRateLimits' = [userRateLimits EXCEPT ![c] = now]
    /\ cmd' = [cmd EXCEPT ![c] = IF getLightState(sheet, c).ignored THEN "idle" ELSE "dtek"]
    /\ UNCHANGED <<pureVars, storeVars, now, sheet, pass, ping, tgVars, dtekCache, dtekCheckTimestamps,
                   pinnedUpdateTimestamps, modeWriteMemo>>

\* /dtek: bot.sendMessage(chatId, await getDtekInfo(chatId, true)); a state
\* update is followed by updatePinnedMessage(chatId).
DtekCmdRun(c) ==
    /\ cmd[c] = "dtek"
    /\ \E o \in getDtekInfo(sheet, dtekCache, c, TRUE, now) :
          /\ sheet' = o.sheet
          /\ dtekCache' = o.cache
          /\ IF o.wrote
             THEN SetTq(updatePinnedMessage(Tq, c, FALSE, getLightState(o.sheet, c), now))
             ELSE UNCHANGED <<queue, processing, batch>>
          /\ delivered' = Log(delivered, Sent(c, DtekReplyText(o.message)))
    /\ cmd' = [cmd EXCEPT ![c] = "idle"]
    /\ UNCHANGED <<pureVars, storeVars, now, pass, ping, pausing, lastSentMessage, dtekCheckTimestamps,
                   pinnedUpdateTimestamps, modeWriteMemo, userRateLimits>>

\* Time passes.  A clock step is minutes long, a request takes less: no
\* handler is in flight across a step (the queue's pause may be).
Tick(d) ==
    /\ now + d <= StartTime + MaxElapsed
    /\ ~pass.running
    /\ \A c \in Chats : ping[c].pc = "idle" /\ cmd[c] = "idle"
    /\ now' = now + d
    /\ UNCHANGED <<pureVars, storeVars, sheet, procVars, tgVars, memoVars>>

-----------------------------------------------------------------------------
(* The server *)

\* Rows an earlier run of the server can have left in the sheet.
Row(lastPing, lightState, start, duration, pinned, city, street, house, ignored, mode) ==
    [exists |-> TRUE, last_ping_time |-> lastPing, light_state |-> lightState,
     light_start_time |-> start, previous_duration |-> duration,
     pinned_message_id |-> pinned, city |-> city, street |-> street,
     house_number |-> house, ignored |-> ignored, mode |-> mode]

InitRows ==
    { NullRow,
      \* /start only
      [NullRow EXCEPT !.exists = TRUE],
      \* a device that pings, no address
      Row(<<StartTime>>, "TRUE", <<StartTime - 100>>, <<>>, "m1", "", "", "", FALSE, MODE_PING),
      \* a device that pings, a city without a street
      Row(<<StartTime - 1>>, "TRUE", <<StartTime - 100>>, <<>>, "m1", CITY, "", "", FALSE,
          MODE_PING),
      \* address and device, On
      Row(<<StartTime - 1>>, "TRUE", <<StartTime - 100>>, <<>>, "m1", CITY, STREET, HOUSE, FALSE,
          MODE_FULL),
      \* address and device, Off since a timeout
      Row(<<StartTime - 100>>, "FALSE", <<StartTime - 100>>, FormatDuration(50), "m1", CITY,
          STREET, HOUSE, FALSE, MODE_FULL),
      \* address only
      Row(<<>>, "FALSE", <<StartTime - 100>>, FormatDuration(50), "m1", CITY, STREET, HOUSE,
          FALSE, MODE_DTEK),
      Row(<<>>, "TRUE", <<StartTime - 100>>, <<>>, "m1", CITY, STREET, HOUSE, FALSE, MODE_DTEK),
      Row(<<>>, "", <<>>, <<>>, "m1", CITY, STREET, "", FALSE, MODE_NONE),
      \* stopped by /stop
      Row(<<StartTime - 181>>, "TRUE", <<StartTime - 200>>, <<>>, "m1", CITY, STREET, HOUSE, TRUE,
          MODE_FULL) }

\* A slot for a SheetsDB call in flight
IdleCall ==
    [op |-> "", chat |-> "", pc |-> "idle", row |-> 0, snapshot |-> <<>>, value |-> FALSE]
NoCache == [has |-> FALSE, data |-> NullRow, timestamp |-> 0]
NoAllCache == [has |-> FALSE, data |-> <<>>, timestamp |-> 0]

\* The process after its bootstrap: nothing in flight, every map empty.
BootWith(firstPass) ==
    /\ lightStateCache = [c \in Chats |-> NoCache]
    /\ allStatesCache = NoAllCache
    /\ calls = [k \in 1..MaxCalls |-> IdleCall]
    /\ now = StartTime
    /\ pass = firstPass
    /\ ping = [c \in Chats |-> IdlePing]
    /\ cmd = [c \in Chats |-> "idle"]
    /\ queue = <<>>
    /\ processing = FALSE
    /\ batch = <<>>
    /\ pausing = FALSE
    /\ lastSentMessage = [c \in Chats |-> [has |-> FALSE, text |-> NoText, t |-> 0]]
    /\ delivered = NoCall
    /\ dtekCache = [k \in DtekKeys |-> [has |-> FALSE, v |-> NoSummary, t |-> 0]]
    /\ dtekCheckTimestamps = [c \in Chats |-> 0]
    /\ pinnedUpdateTimestamps = [c \in Chats |-> 0]
    /\ modeWriteMemo = [c \in Chats |-> [mode |-> "", t |-> 0]]
    /\ userRateLimits = [c \in Chats |-> 0]

Boot == BootWith(IdlePass)

Init ==
    /\ arg = <<>>
    /\ res = <<>>
    /\ sheet \in {sh \in [Chats -> InitRows] : \A c \in Chats \ MainChats : sh[c] = NullRow}
    /\ Boot
    /\ rows = <<>>

Next ==
    \/ PassStart
    \/ \E c \in MainChats : EvalStart(c)
    \/ \E c \in MainChats : SaveOff(c)
    \/ \E c \in MainChats : Apply(c)
    \/ \E c \in MainChats : Notify(c)
    \/ \E c \in MainChats : AwaitMsg(c)
    \/ \E c \in MainChats : AwaitAuto(c)
    \/ PassEnd
    \/ \E c \in MainChats : PingRead(c)
    \/ \E c \in MainChats : PingCreate(c)
    \/ \E c \in MainChats : PingSave(c)
    \/ \E c \in MainChats : PingNotify(c)
    \/ \E c \in MainChats : Stop(c)
    \/ \E c \in MainChats : Start(c)
    \/ \E c \in MainChats : DtekCmdStart(c)
    \/ \E c \in MainChats : DtekCmdRun(c)
    \/ \E i \in 1..MaxQueue : TaskDone(i)
    \/ NextBatch
    \/ \E d \in TickSteps : Tick(d)

Spec == Init /\ [][Next]_vars

-----------------------------------------------------------------------------
(* determineMode on its own *)

serverVars == <<now, sheet, procVars, tgVars, memoVars>>

ModeRows ==
    {NullRow} \cup
    { Row(lastPing, lightState, <<StartTime>>, <<>>, "", city, street, HOUSE, ignored, mode) :
        lastPing \in {<<>>, <<-1>>, <<-2>>, <<StartTime>>},
        lightState \in {"TRUE", "FALSE"},
        city \in {"", " ", CITY},
        street \in {"", " ", STREET},
        ignored \in BOOLEAN,
        mode \in {"", MODE_NONE, MODE_PING, MODE_DTEK, MODE_FULL} }

InitMode ==
    /\ arg \in ModeRows
    /\ res = [done |-> FALSE, v |-> ""]
    /\ sheet = [c \in Chats |-> NullRow]
    /\ Boot
    /\ rows = <<>>

Classify ==
    /\ ~res.done
    /\ res' = [done |-> TRUE, v |-> determineMode(arg)]
    /\ UNCHANGED <<arg, serverVars, storeVars>>

NextMode == Classify

SpecMode == InitMode /\ [][NextMode]_vars

\* The two predicates of the classification; a cell of whitespace is empty.
has_address(row) == row.exists /\ Trim(row.city) # "" /\ Trim(row.street) # ""
has_liveness(row) == row.exists /\ ~IsBlankTime(row.last_ping_time)

\* C6: determineMode is a function of has_address and has_liveness alone:
\* none for (false, false), ping for (false, true), dtek_only for (true,
\* false), full for (true, true), and no other value.
C6_ModeTable ==
    res.done =>
        /\ res.v \in {MODE_NONE, MODE_PING, MODE_DTEK, MODE_FULL}
        /\ (~has_address(arg) /\ ~has_liveness(arg)) => res.v = MODE_NONE
        /\ (~has_address(arg) /\ has_liveness(arg)) => res.v = MODE_PING
        /\ (has_address(arg) /\ ~has_liveness(arg)) => res.v = MODE_DTEK
        /\ (has_address(arg) /\ has_liveness(arg)) => res.v = MODE_FULL

\* A stopped subscriber that is Off and whose stored mode is stale is
\* classified by its address alone.
C6_Witness ==
    /\ res.done /\ res.v = MODE_DTEK
    /\ arg.ignored /\ arg.light_state = "FALSE" /\ arg.mode = MODE_PING
    /\ arg.last_ping_time = <<-1>>

-----------------------------------------------------------------------------
(* fetchAndSummarizeDtek on its own *)

\* Records of the per-house map of the source
Entries ==
    {AbsentEntry} \cup
    { e \in { [present |-> TRUE, sub_type |-> subType, start_date |-> startDate,
               end_date |-> endDate,
               sub_type_reason |-> IF subType = "" THEN {} ELSE {"repair"}] :
                subType \in {"", "planned"},
                startDate \in {"", " ", "10:00 01.01.2025", "14:00 01.01.2025"},
                endDate \in {"", "10:00 01.01.2025", "14:00 01.01.2025"} } :
        e.start_date = " " => e.end_date = "" } \cup
    { [present |-> TRUE, sub_type |-> "emergency", start_date |-> "14:00 01.01.2025",
       end_date |-> endDate, sub_type_reason |-> {"accident"}] :
        endDate \in {"", "14:00 01.01.2025"} }

\* House numbers a subscriber can have stored: a key of the map, a key of the
\* map in another letter case, a number between two keys of the map.
HouseNumbers == {HOUSE, "g1", "13"}

\* What fetchData resolves to: the map, the key its preset mapping resolves
\* the house to (none, or the group key), the street-level flag.
DtekInputs ==
    { [result |-> [outcome |-> "ok", hasData |-> TRUE, data |-> data,
                   updateTimestamp |-> <<StartTime>>, resolvedHomeKey |-> resolved,
                   showCurOutageParam |-> flag],
       house_number |-> house_number] :
        data \in [HouseKeys -> Entries], resolved \in {"", "G1"}, flag \in BOOLEAN,
        house_number \in HouseNumbers }
    \cup
    { [result |-> FetchResult(outcome, AbsentEntry, <<>>), house_number |-> HOUSE] :
        outcome \in {"null", "throw"} }

InitDtek ==
    /\ arg \in DtekInputs
    /\ res = [done |-> FALSE, v |-> NoSummary]
    /\ sheet = [c \in Chats |-> NullRow]
    /\ Boot
    /\ rows = <<>>

Summarize ==
    /\ ~res.done
    /\ res' = [done |-> TRUE, v |-> fetchAndSummarizeDtek(arg.result, arg.house_number)]
    /\ UNCHANGED <<arg, serverVars, storeVars>>

NextDtek == Summarize

SpecDtek == InitDtek /\ [][NextDtek]_vars

\* The records of the map that stand for the target house: the one under the
\* house number and the one under the key the source resolved it to.
TargetRecords(input) ==
    { input.result.data[k] :
        k \in {k \in HouseKeys : k = input.house_number \/ k = input.result.resolvedHomeKey} }

OutageRecords(input) == {r \in TargetRecords(input) : r.present /\ r.sub_type # ""}

\* C7: when the map holds a record for the target house, directly or through
\* the resolved key, with a non-empty sub_type, the summary has inferredOff =
\* true and carries the type, start and end of such a record, whatever the
\* street-level flag is.
C7_HouseRecordWins ==
    (res.done /\ arg.result.outcome = "ok" /\ OutageRecords(arg) # {}) =>
        /\ res.v.inferredOff
        /\ \E r \in OutageRecords(arg) :
              /\ res.v.message.kind = "house"
              /\ res.v.message.type = r.sub_type
              /\ res.v.message.start = OrNotSpecified(r.start_date)
              /\ res.v.message.end = OrNotSpecified(r.end_date)

\* C8: with the street-level flag set, no record of the target house with a
\* non-empty sub_type and no record of the street with a non-empty sub_type,
\* start_date or end_date, the summary has inferredOff = false.
C8_FlagAloneIsNoOutage ==
    (/\ res.done /\ arg.result.outcome = "ok"
     /\ arg.result.showCurOutageParam
     /\ OutageRecords(arg) = {}
     /\ \A k \in HouseKeys :
           LET r == arg.result.data[k]
           IN  r.present => (r.sub_type = "" /\ r.start_date = "" /\ r.end_date = ""))
    => ~res.v.inferredOff

\* The flag is set and the map has records, all of them empty.
C8_Witness ==
    /\ res.done /\ arg.result.outcome = "ok"
    /\ arg.result.showCurOutageParam
    /\ \A k \in HouseKeys :
           /\ arg.result.data[k].present
           /\ arg.result.data[k].sub_type = ""
           /\ arg.result.data[k].start_date = ""
           /\ arg.result.data[k].end_date = ""
    /\ ~res.v.inferredOff
    /\ res.v.message.kind = "no_outage"

\* The keys of the map whose record the street-level scan counts as active.
ActiveKeys(input) == {k \in HouseKeys : isActive(input.result.data[k])}

ValidStarts(input) ==
    {ParseHM(Trim(input.result.data[k].start_date)) : k \in ActiveKeys(input)} \ {-1}
ValidEnds(input) ==
    {ParseHM(Trim(input.result.data[k].end_date)) : k \in ActiveKeys(input)} \ {-1}

\* C29: when no record of the target house has a non-empty sub_type, the
\* street-level flag is set and at least one record of the street is active,
\* the summary has inferredOff = true and is the street-level one: its start
\* is the earliest start of the active records, its end their latest end,
\* its reasons the union of their reasons.
C29_StreetSummary ==
    (/\ res.done /\ arg.result.outcome = "ok"
     /\ arg.result.showCurOutageParam
     /\ OutageRecords(arg) = {}
     /\ ActiveKeys(arg) # {})
    => /\ res.v.inferredOff
       /\ res.v.message.kind = "street"
       /\ ValidStarts(arg) # {} =>
              /\ ParseHM(res.v.message.start) \in ValidStarts(arg)
              /\ \A m \in ValidStarts(arg) : ParseHM(res.v.message.start) <= m
       /\ ValidEnds(arg) # {} =>
              /\ ParseHM(res.v.message.end) \in ValidEnds(arg)
              /\ \A m \in ValidEnds(arg) : ParseHM(res.v.message.end) >= m
       /\ res.v.message.reasons \ {NOT_SPECIFIED} =
              UNION {arg.result.data[k].sub_type_reason : k \in ActiveKeys(arg)}

\* The house has no record; two other houses of the street have outages with
\* different starts, ends and reasons.
C29_Witness ==
    /\ res.done /\ arg.result.outcome = "ok"
    /\ arg.result.showCurOutageParam
    /\ arg.house_number = HOUSE /\ arg.result.resolvedHomeKey = ""
    /\ ~arg.result.data[HOUSE].present
    /\ arg.result.data["14"].sub_type = "planned"
    /\ arg.result.data["14"].start_date = "10:00 01.01.2025"
    /\ arg.result.data["14"].end_date = "10:00 01.01.2025"
    /\ arg.result.data["G1"].sub_type = "emergency"
    /\ arg.result.data["G1"].end_date = "14:00 01.01.2025"
    /\ res.v.inferredOff
    /\ res.v.message.start = "10:00 01.01.2025"
    /\ res.v.message.end = "14:00 01.01.2025"
    /\ res.v.message.reasons = {"repair", "accident"}

\* Letter case and leading digits of the house numbers and keys of the model
LowerCase(s) == IF s = "G1" THEN "g1" ELSE s
LeadingDigits(s) ==
    CASE s = "12" -> 12
      [] s = "13" -> 13
      [] s = "14" -> 14
      [] OTHER -> -1
Distance(a, b) == IF a >= b THEN a - b ELSE b - a

\* The keys of the map that the priority order exact match, case-insensitive
\* match, closest leading number, any key allows for the house number.
PreferredKeys(input) ==
    LET keys == {k \in HouseKeys : input.result.data[k].present}
        h == input.house_number
        exact == {k \in keys : k = h}
        anyCase == {k \in keys : LowerCase(k) = LowerCase(h)}
        numbered == {k \in keys : LeadingDigits(k) >= 0 /\ LeadingDigits(h) >= 0}
        closest == {k \in numbered : \A j \in numbered :
                       Distance(LeadingDigits(k), LeadingDigits(h))
                           <= Distance(LeadingDigits(j), LeadingDigits(h))}
    IN  IF exact # {} THEN exact
        ELSE IF anyCase # {} THEN anyCase
        ELSE IF closest # {} THEN closest
        ELSE keys

\* C30: the record read for the house is the one under the key that matches
\* the house number exactly, else under a key that matches it whatever the
\* letter case, else under the key with the closest leading number, else
\* under any key; the summary is the one of that record.  (The source
\* resolved no key itself and reports no street-level outage.)
C30_KeyPriority ==
    (/\ res.done /\ arg.result.outcome = "ok"
     /\ arg.result.resolvedHomeKey = "" /\ ~arg.result.showCurOutageParam
     /\ PreferredKeys(arg) # {})
    => \E k \in PreferredKeys(arg) :
          LET r == arg.result.data[k]
          IN  IF r.sub_type = "" THEN ~res.v.inferredOff
              ELSE /\ res.v.inferredOff
                   /\ res.v.message.type = r.sub_type
                   /\ res.v.message.start = OrNotSpecified(r.start_date)
                   /\ res.v.message.end = OrNotSpecified(r.end_date)

-----------------------------------------------------------------------------
(* The notification dispatcher on its own *)

\* Texts that two callers can both have for one chat
QueueTexts == {OffText(PING_TIMEOUT_SEC + 1), DtekOnText, DtekOffText}

InitQueue ==
    /\ arg = <<>>
    /\ res = <<>>
    /\ sheet = [c \in Chats |-> NullRow]
    /\ Boot
    /\ rows = <<>>

\* A caller (a pass, a ping, an on-demand check) runs
\* telegramQueue.add(() => sendMessageDedup(chatId, text)).
Send(c, text) ==
    /\ SetTq(TqAdd(Tq, MsgTask(c, text, NoOwner), now))
    /\ UNCHANGED <<pureVars, storeVars, now, sheet, procVars, pausing, lastSentMessage, delivered,
                   memoVars>>

NextQueue ==
    \/ \E c \in Chats, text \in QueueTexts : Send(c, text)
    \/ \E i \in 1..MaxQueue : TaskDone(i)
    \/ NextBatch
    \/ \E d \in TickSteps : Tick(d)

SpecQueue == InitQueue /\ [][NextQueue]_vars

\* A message reaches the transport in this step.
Delivers(c, text) ==
    /\ Len(batch') = Len(batch) - 1
    /\ \E i \in 1..Len(batch) :
          /\ batch' = RemoveAt(batch, i)
          /\ batch[i].kind = "msg" /\ batch[i].chat = c /\ batch[i].text = text

\* C5: of two calls of sendMessageDedup with one chat and one text inside the
\* dedup window only one reaches the transport: no text is delivered to a
\* chat that got the same text less than DEDUP_WINDOW_S ago.
C5_OneDelivery ==
    [][\A c \in Chats, text \in QueueTexts :
          Delivers(c, text) =>
              ~(/\ lastSentMessage[c].has
                /\ lastSentMessage[c].text = text
                /\ now - lastSentMessage[c].t < DEDUP_WINDOW_S)]_vars

-----------------------------------------------------------------------------
(* Claims about the server *)

\* Status messages for a chat that wait in the queue or are in flight
StatusTasks(q, c, kind) ==
    {i \in 1..Len(q) : q[i].kind = "msg" /\ q[i].chat = c /\ q[i].text.kind = kind}
StatusCount(c, kind) ==
    Cardinality(StatusTasks(queue, c, kind)) + Cardinality(StatusTasks(batch, c, kind))
StatusCountNext(c, kind) ==
    Cardinality(StatusTasks(queue', c, kind)) + Cardinality(StatusTasks(batch', c, kind))

\* The row a pass task works on is liveness-governed, On, and was started at T0
LivenessOn(row) ==
    /\ determineMode(row) \in {MODE_FULL, MODE_PING}
    /\ row.light_state = "TRUE"
    /\ IsValidTime(row.last_ping_time) /\ IsValidTime(row.light_start_time)

C2_PingWhileOn ==
    [][\A c \in Chats :
          LET row == ping[c].row
          IN  (ping[c].pc = "save" /\ ping'[c].pc # "save" /\ row.light_state = "TRUE") =>
                /\ ping'[c].pc = "idle"
                /\ sheet'[c].light_state = "TRUE"
                /\ sheet'[c].light_start_time = row.light_start_time
                /\ sheet'[c].previous_duration = row.previous_duration
                /\ sheet'[c].last_ping_time = FormatTime(ping[c].now)
                /\ StatusCountNext(c, "on") = StatusCount(c, "on")
                /\ StatusCountNext(c, "off") = StatusCount(c, "off")]_vars

\* Two pings 180 s apart, the second one stored: the row is On since before
\* the first.
C2_Witness ==
    \E c \in Chats :
        /\ ping[c].pc = "idle"
        /\ now = StartTime + PING_TIMEOUT_SEC
        /\ sheet[c].last_ping_time = <<StartTime + PING_TIMEOUT_SEC>>
        /\ sheet[c].light_state = "TRUE"
        /\ sheet[c].light_start_time = <<StartTime - 100>>
        /\ determineMode(getLightState(sheet, c)) = MODE_FULL
        /\ pass.now = StartTime + PING_TIMEOUT_SEC /\ ~pass.running

\* C3: a ping at T for a subscriber stored Off since T0 stores light_state =
\* true, state_start_time = T and previous_duration = T - T0, and sends one On
\* notification.
C3_PingWhileOff ==
    [][\A c \in Chats :
          LET row == ping[c].row
              T == ping[c].now
              T0 == row.light_start_time[1]
          IN  (/\ ping[c].pc = "save" /\ ping'[c].pc # "save"
               /\ row.light_state = "FALSE" /\ IsValidTime(row.light_start_time)) =>
                /\ sheet'[c].light_state = "TRUE"
                /\ sheet'[c].light_start_time = FormatTime(T)
                /\ sheet'[c].previous_duration = FormatDuration(T - T0)
                /\ ping'[c].pc = "notify"]_vars

\* The summary of a fetch that failed: fetchData resolved to null or threw
FetchFailed(summary) == summary.message.kind \in {"fetch_failed", "error"}

\* C4: a pass over a dtek_only subscriber whose outage fetch failed leaves
\* the stored light_state as it is, On or Off, and sends no status message.
C4_FetchFailureKeepsState ==
    [][\A c \in Chats :
          (/\ pass.running /\ pass.task[c].pc = "apply" /\ pass'.task[c].pc # "apply"
           /\ FetchFailed(pass.task[c].summary)) =>
              /\ LightOn(getLightState(sheet', c)) = LightOn(getLightState(sheet, c))
              /\ pass'.task[c].pc = "done"
              /\ StatusCountNext(c, "on") = StatusCount(c, "on")
              /\ StatusCountNext(c, "off") = StatusCount(c, "off")]_vars

\* C9: in full mode nothing that is driven by outage data (the advisory fetch
\* of a pass after an Off transition, the /dtek query) changes light_state or
\* state_start_time.
C9_FullModeIgnoresOutage ==
    [][\A c \in Chats :
          (/\ determineMode(getLightState(sheet, c)) = MODE_FULL
           /\ \/ cmd[c] = "dtek" /\ cmd'[c] = "idle"
              \/ /\ pass.running /\ pass.task[c].mode = MODE_FULL
                 /\ pass.task[c].pc = "await_msg" /\ pass'.task[c].pc = "await_auto")
          => /\ sheet'[c].light_state = sheet[c].light_state
             /\ sheet'[c].light_start_time = sheet[c].light_start_time]_vars

\* C10: while a subscriber's ignored flag is set, no step of a pass or of a
\* ping writes its light_state, state_start_time or previous_duration or
\* queues a message or a pinned update for it, also when /stop set the flag
\* after the pass read the rows; and no row is ever deleted.
C10_SuppressedIsInvisible ==
    [][\A c \in Chats :
          /\ sheet[c].exists => sheet'[c].exists
          /\ (sheet[c].exists /\ sheet[c].ignored /\ (pass' # pass \/ ping' # ping)) =>
                /\ sheet'[c].light_state = sheet[c].light_state
                /\ sheet'[c].light_start_time = sheet[c].light_start_time
                /\ sheet'[c].previous_duration = sheet[c].previous_duration
                /\ \A i \in 1..Len(queue' \o batch') :
                      (queue' \o batch')[i].chat = c =>
                          \E j \in 1..Len(queue \o batch) :
                              (queue \o batch)[j] = (queue' \o batch')[i]]_vars

\* C11: a pass that completes leaves every subscriber Off that it read as
\* not stopped, ping-only (a last ping, no address), On and with a last ping
\* more than 180 s old, unless a ping or /stop came in meanwhile.
C11_PingOnlyTimesOut ==
    [][\A c \in Chats :
          LET row == pass.rows[c]
          IN  (/\ pass.running /\ ~pass'.running
               /\ row.exists /\ ~row.ignored /\ ~sheet[c].ignored
               /\ determineMode(row) = MODE_PING /\ ~has_address(row)
               /\ row.light_state = "TRUE"
               /\ IsValidTime(row.last_ping_time)
               /\ pass.now - row.last_ping_time[1] > PING_TIMEOUT_SEC
               /\ sheet[c].last_ping_time = row.last_ping_time)
              => sheet'[c].light_state = "FALSE"]_vars

\* The step in which applyDtekSummary writes the row of a dtek_only
\* subscriber that nothing else has written since the pass read it.
ApplyStep(c) ==
    /\ pass.running /\ pass.task[c].pc = "apply" /\ pass'.task[c].pc # "apply"
    /\ pass.task[c].mode = MODE_DTEK
    /\ sheet[c].light_state = pass.rows[c].light_state
    /\ sheet[c].light_start_time = pass.rows[c].light_start_time
    /\ sheet[c].previous_duration = pass.rows[c].previous_duration

\* C12: an evaluation at T of a dtek_only subscriber whose summary disagrees
\* with the stored state (an outage while On, none while Off) flips
\* light_state, stores state_start_time = T and previous_duration = T minus
\* the old start time, in both directions, and goes on to notify.
C12_OutageFlip ==
    [][\A c \in Chats :
          LET row == pass.rows[c]
              summary == pass.task[c].summary
              T == pass.now
              T0 == row.light_start_time[1]
          IN  (/\ ApplyStep(c)
               /\ IsValidTime(row.light_start_time)
               /\ \/ summary.inferredOff /\ row.light_state = "TRUE"
                  \/ ~summary.inferredOff /\ row.light_state = "FALSE")
              => /\ sheet'[c].light_state = BoolCell(~LightOn(row))
                 /\ sheet'[c].light_start_time = FormatTime(T)
                 /\ sheet'[c].previous_duration = FormatDuration(T - T0)
                 /\ pass'.task[c].pc = "notify"]_vars

\* C13: an evaluation of a dtek_only subscriber whose summary agrees with
\* the stored state, compared as booleans (an outage while not On, none while
\* On), keeps light_state and state_start_time as stored, an empty or
\* unparseable start time included, and queues no status message.
C13_OutageAgreement ==
    [][\A c \in Chats :
          LET row == pass.rows[c]
              summary == pass.task[c].summary
          IN  (ApplyStep(c) /\ (summary.inferredOff <=> ~LightOn(row)))
              => /\ LightOn(getLightState(sheet', c)) = LightOn(row)
                 /\ sheet'[c].light_start_time = sheet[c].light_start_time
                 /\ pass'.task[c].pc = "done"
                 /\ StatusCountNext(c, "on") = StatusCount(c, "on")
                 /\ StatusCountNext(c, "off") = StatusCount(c, "off")]_vars

\* C15: the state_start_time of every row is at or before the current time.
C15_StartNotInFuture ==
    \A c \in Chats :
        (sheet[c].exists /\ IsValidTime(sheet[c].light_start_time))
            => sheet[c].light_start_time[1] <= now

\* C16: a step changes the previous_duration of a row only together with its
\* light_state: a ping while On, an outage evaluation that agrees with the
\* row and a /dtek query leave the stored duration as it is.
C16_DurationOnlyOnFlip ==
    [][\A c \in Chats :
          (sheet[c].exists /\ sheet'[c].previous_duration # sheet[c].previous_duration)
              => LightOn(getLightState(sheet', c)) # LightOn(getLightState(sheet, c))]_vars

-----------------------------------------------------------------------------
(* One pass over two rows, one of which fails *)

\* Rows with a transition that is due at StartTime, and one without.
PassRows ==
    { Row(<<StartTime - 181>>, "TRUE", <<StartTime - 200>>, <<>>, "m1", CITY, STREET, HOUSE,
          FALSE, MODE_FULL),
      Row(<<StartTime - 181>>, "TRUE", <<StartTime - 200>>, <<>>, "m1", CITY, "", "", FALSE,
          MODE_PING),
      Row(<<>>, "TRUE", <<StartTime - 100>>, <<>>, "m1", CITY, STREET, HOUSE, FALSE, MODE_DTEK),
      Row(<<>>, "FALSE", <<StartTime - 100>>, FormatDuration(50), "m1", CITY, STREET, HOUSE,
          FALSE, MODE_DTEK) }

\* arg is the subscriber whose store writes and transport calls fail.
InitPass ==
    /\ arg \in Chats
    /\ res = <<>>
    /\ sheet \in [Chats -> PassRows]
    /\ Boot
    /\ rows = <<>>

\* A throw that takes every task of the pass down with it.
ThrowAbortsPass(c) ==
    /\ c = arg
    /\ pass.running /\ pass.task[c].pc \in {"save_off", "apply"}
    /\ pass' = [pass EXCEPT !.task = [d \in Chats |-> IdleTask]]
    /\ UNCHANGED <<pureVars, storeVars, now, sheet, ping, cmd, tgVars, memoVars>>

\* The store write of a row task rejects (SheetsDB rethrows the error of the
\* sheets API): the task's closure has no try/catch and rejects, Promise.all
\* rejects and checkLightsStatus logs; the promises of the other tasks are
\* not touched.  checkLightsStatus returns from its catch block, and res
\* holds that: the caller's await is over (GET /check-lights answers ok).
Throw(c) ==
    /\ c = arg
    /\ pass.running /\ pass.task[c].pc \in {"save_off", "apply"}
    /\ pass' = [pass EXCEPT !.task[c] = IdleTask]
    /\ res' = <<"returned">>
    /\ UNCHANGED <<arg, storeVars, now, sheet, ping, cmd, tgVars, memoVars>>

\* bot.sendMessage of a message task rejects: fn().then(resolve).catch(reject)
\* hands the error to the caller that awaits telegramQueue.add, the batch goes
\* on.  Nothing reached the chat and lastSentMessage is not set.  A row
\* closure that awaited the task rejects as in Throw.
TaskFail(i) ==
    /\ i \in 1..Len(batch)
    /\ batch[i].kind = "msg" /\ batch[i].chat = arg
    /\ batch' = RemoveAt(batch, i)
    /\ pass' = IF batch[i].owner = PassOwner(arg)
               THEN [pass EXCEPT !.task[arg] = IdleTask]
               ELSE pass
    /\ res' = IF batch[i].owner = PassOwner(arg) THEN <<"returned">> ELSE res
    /\ IF Len(batch) = 1
       THEN processing' = (queue # <<>>) /\ pausing' = (queue # <<>>)
       ELSE UNCHANGED <<processing, pausing>>
    /\ UNCHANGED <<arg, storeVars, now, sheet, ping, cmd, queue, lastSentMessage, delivered,
                   memoVars>>

NextPass ==
    \/ PassStart
    \/ \E c \in Chats : EvalStart(c)
    \/ \E c \in Chats : SaveOff(c)
    \/ \E c \in Chats : Apply(c)
    \/ \E c \in Chats : Notify(c)
    \/ \E c \in Chats : AwaitMsg(c)
    \/ \E c \in Chats : AwaitAuto(c)
    \/ PassEnd
    \/ \E c \in Chats : Throw(c)
    \/ \E i \in 1..MaxQueue : TaskFail(i)
    \/ \E i \in 1..MaxQueue : TaskDone(i)
    \/ NextBatch

SpecPass == InitPass /\ [][NextPass]_vars

\* C14: when every task of a pass has settled, one of them by a throw of the
\* failing subscriber, every other subscriber that was read as not stopped
\* was evaluated: a liveness-governed row that was On with a ping gap over
\* 180 s is stored Off since the time of the pass, with the duration of its On
\* state, and its Off message reached the chat; a dtek_only row that
\* disagrees with the summary of its address is flipped, stamped with the time
\* of the pass, notified, and marked checked.
C14_OthersStillEvaluated ==
    [][\A c \in Chats \ {arg} :
          LET row == pass.rows[c]
              T == pass.now
          IN  (pass.running /\ ~pass'.running /\ ~row.ignored /\ Trim(row.city) # "") =>
                /\ (determineMode(row) \in {MODE_FULL, MODE_PING}
                    /\ LightOn(row) /\ PingTimedOut(row, T, T)) =>
                      /\ sheet[c].light_state = "FALSE"
                      /\ sheet[c].light_start_time = FormatTime(T)
                      /\ sheet[c].previous_duration = FormatDuration(T - row.light_start_time[1])
                      /\ lastSentMessage[c].has
                      /\ lastSentMessage[c].text.kind \in {"off", "dtek_auto"}
                /\ determineMode(row) = MODE_DTEK =>
                      LET key == dtekKey(row.city, row.street, Trim(row.house_number))
                      IN  /\ dtekCheckTimestamps[c] = T
                          /\ dtekCache[key].has
                          /\ Disagrees(dtekCache[key].v, row) =>
                                /\ sheet[c].light_state = BoolCell(~LightOn(row))
                                /\ sheet[c].light_start_time = FormatTime(T)
                                /\ lastSentMessage[c].has
                                /\ lastSentMessage[c].text.kind = "dtek_auto"]_vars

\* The store write of c1 failed, its row is still On with its old ping; c2
\* was switched Off by the same pass and has its message; the pass is over.
C14_Witness ==
    /\ arg = "c1" /\ ~pass.running /\ pass.now = StartTime
    /\ determineMode(pass.rows["c1"]) = MODE_FULL
    /\ sheet["c1"].light_state = "TRUE"
    /\ sheet["c1"].light_start_time = <<StartTime - 200>>
    /\ ~lastSentMessage["c1"].has
    /\ determineMode(pass.rows["c2"]) = MODE_PING
    /\ sheet["c2"].light_state = "FALSE"
    /\ sheet["c2"].light_start_time = <<StartTime>>
    /\ lastSentMessage["c2"].has /\ lastSentMessage["c2"].text.kind = "off"

\* C24: a status-change message of a subscriber is enqueued only by a task
\* whose state write has completed, so the stored row then holds the new
\* state since the time of the pass; a task whose write throws leaves the
\* stored row as it was and enqueues no status-change message.
C24_NotifyOnlyAfterWrite ==
    [][\A c \in Chats :
          /\ \A kind \in {"on", "off"} :
                StatusCountNext(c, kind) > StatusCount(c, kind) =>
                    /\ pass.task[c].pc = "notify"
                    /\ sheet[c].light_state = BoolCell(kind = "on")
                    /\ sheet[c].light_start_time = FormatTime(pass.now)
          /\ (/\ \/ pass.task[c].pc = "save_off"
                  \/ (pass.task[c].pc = "apply" /\ pass.task[c].changed)
               /\ pass'.task[c].pc = "done") =>
                    /\ sheet'[c] = sheet[c]
                    /\ \A kind \in {"on", "off"} :
                          StatusCountNext(c, kind) = StatusCount(c, kind)]_vars

\* The pass is over; the write of the outage flip of c2 threw: the row is
\* On as before and no message reached the chat, while c1 was evaluated.
C24_Witness ==
    /\ arg = "c2" /\ ~pass.running /\ pass.now = StartTime
    /\ determineMode(pass.rows["c2"]) = MODE_DTEK
    /\ pass.rows["c2"].light_state = "TRUE"
    /\ dtekCache[dtekKey(CITY, STREET, HOUSE)].has
    /\ dtekCache[dtekKey(CITY, STREET, HOUSE)].v.inferredOff
    /\ sheet["c2"] = pass.rows["c2"]
    /\ dtekCheckTimestamps["c2"] = 0
    /\ ~lastSentMessage["c2"].has
    /\ queue = <<>> /\ batch = <<>>
    /\ lastSentMessage["c1"].has

\* C39: checkLightsStatus returns, and GET /check-lights answers ok, only
\* when the evaluation of every row of the pass has finished, also when the
\* evaluation of one row throws.
C39_AnswerAfterEveryRow ==
    (res # <<>> \/ (~pass.running /\ pass.now = now)) =>
        \A c \in Chats : pass.task[c].pc = "done"

-----------------------------------------------------------------------------
(* The store on its own: SheetsDB calls as they interleave *)

\* A data row of the sheet: column A and the cells of columns B..K
SheetRow(c, cells) == [chat_id |-> c, cells |-> cells]

\* rows.findIndex(row => row[0] === String(chatId)): the first row of the
\* chat, 0 (null) when it has none.
findRowByChatId(rs, c) ==
    IF \E i \in 1..Len(rs) : rs[i].chat_id = c
    THEN CHOOSE i \in 1..Len(rs) :
            rs[i].chat_id = c /\ \A j \in 1..(i - 1) : rs[j].chat_id # c
    ELSE 0

\* getCached(chatId): the data of an entry younger than the TTL, null
\* otherwise; an entry that holds null is no hit for getLightState.
getCached(cache, c, clock) ==
    IF cache[c].has /\ clock - cache[c].timestamp < CACHE_TTL_S THEN cache[c].data ELSE NullRow

\* getAllCached() !== null
getAllCached(cache, clock) == cache.has /\ clock - cache.timestamp < ALL_STATES_CACHE_TTL_S

\* What getLightState and getAllLightStates make of a response for A:K
ReadOne(rs, c) ==
    IF findRowByChatId(rs, c) = 0 THEN NullRow ELSE parseRow(rs[findRowByChatId(rs, c)].cells)
ReadAll(rs) == [i \in 1..Len(rs) |-> SheetRow(rs[i].chat_id, parseRow(rs[i].cells))]

WriteOps == {"saveLightState", "saveAddress", "updateField", "initializeUser"}
ReadOps == {"getLightState", "getAllLightStates"}

\* Calls take the lowest free slot.
FreeSlot(k) == calls[k].pc = "idle" /\ \A j \in 1..(k - 1) : calls[j].pc # "idle"

\* A write is called.  saveLightState, saveAddress and updateField delete the
\* cache entries of the chat and of 'all' and then await findRowByChatId;
\* initializeUser awaits it at once.  value: the lightState of saveLightState,
\* the ignored flag of updateField (setIgnored(chatId, true) of /stop).
CallWrite(k, op, c, value) ==
    /\ FreeSlot(k)
    /\ op \in {"saveAddress", "initializeUser"} => ~value
    /\ op = "updateField" => value
    /\ calls' = [calls EXCEPT ![k] =
                    [IdleCall EXCEPT !.op = op, !.chat = c, !.pc = "find", !.value = value]]
    /\ IF op = "initializeUser"
       THEN UNCHANGED <<lightStateCache, allStatesCache>>
       ELSE /\ lightStateCache' = [lightStateCache EXCEPT ![c] = NoCache]
            /\ allStatesCache' = NoAllCache
    /\ UNCHANGED <<pureVars, serverVars, rows>>

\* A read is called.  A cache hit returns the cached data at once; a miss
\* awaits the values of A:K.
CallRead(k, op, c) ==
    /\ FreeSlot(k)
    /\ IF op = "getLightState"
       THEN ~getCached(lightStateCache, c, now).exists
       ELSE ~getAllCached(allStatesCache, now)
    /\ calls' = [calls EXCEPT ![k] = [IdleCall EXCEPT !.op = op, !.chat = c, !.pc = "get"]]
    /\ UNCHANGED <<pureVars, serverVars, rows, lightStateCache, allStatesCache>>

\* findRowByChatId answers.  initializeUser returns when the chat has a row,
\* updateField when it has none.
Find(k) ==
    /\ calls[k].pc = "find"
    /\ LET found == findRowByChatId(rows, calls[k].chat)
       IN  calls' = [calls EXCEPT ![k] =
                IF \/ calls[k].op = "initializeUser" /\ found # 0
                   \/ calls[k].op = "updateField" /\ found = 0
                THEN IdleCall
                ELSE [calls[k] EXCEPT !.pc = "write", !.row = found]]
    /\ UNCHANGED <<pureVars, serverVars, rows, lightStateCache, allStatesCache>>

\* The cells each write stores
LightCells(cells, lightState, clock) ==
    [cells EXCEPT !.exists = TRUE, !.last_ping_time = FormatTime(clock),
                  !.light_state = BoolCell(lightState),
                  !.light_start_time = FormatTime(clock), !.previous_duration = <<>>]
AddressCells(cells) ==
    [cells EXCEPT !.exists = TRUE, !.city = CITY, !.street = STREET, !.house_number = HOUSE,
                  !.ignored = FALSE, !.mode = MODE_FULL]

\* The update or the append of a write is done and the call returns.
\*   saveLightState: columns B..E of the row found, or a new row;
\*   saveAddress:    columns G..K of the row found, or a new row that is Off
\*                   since now with a last ping of now;
\*   initializeUser: a blank row, then the 'all' entry is deleted;
\*   updateField:    one cell of the row found.
Write(k) ==
    /\ calls[k].pc = "write"
    /\ LET call == calls[k]
           c == call.chat
           update(cells) == rows' = [rows EXCEPT ![call.row].cells = cells]
           append(cells) == Len(rows) < MaxRows /\ rows' = Append(rows, SheetRow(c, cells))
       IN  /\ CASE call.op = "saveLightState" ->
                     IF call.row = 0 THEN append(LightCells(NullRow, call.value, now))
                     ELSE update(LightCells(rows[call.row].cells, call.value, now))
                [] call.op = "saveAddress" ->
                     IF call.row = 0 THEN append(AddressCells(LightCells(NullRow, FALSE, now)))
                     ELSE update(AddressCells(rows[call.row].cells))
                [] call.op = "initializeUser" -> append([NullRow EXCEPT !.exists = TRUE])
                [] OTHER -> update([rows[call.row].cells EXCEPT !.ignored = call.value])
           /\ allStatesCache' = IF call.op = "initializeUser" THEN NoAllCache
                                ELSE allStatesCache
    /\ calls' = [calls EXCEPT ![k] = IdleCall]
    /\ UNCHANGED <<pureVars, serverVars, lightStateCache>>

\* The sheets API answers a read with the rows it has at that moment.
Get(k) ==
    /\ calls[k].pc = "get"
    /\ calls' = [calls EXCEPT ![k].pc = "set", ![k].snapshot = rows]
    /\ UNCHANGED <<pureVars, serverVars, rows, lightStateCache, allStatesCache>>

\* The read resumes: setCache / setAllCache with what the response held,
\* and the call returns it.
Set(k) ==
    /\ calls[k].pc = "set"
    /\ IF calls[k].op = "getLightState"
       THEN /\ lightStateCache' = [lightStateCache EXCEPT ![calls[k].chat] =
                   [has |-> TRUE, data |-> ReadOne(calls[k].snapshot, calls[k].chat),
                    timestamp |-> now]]
            /\ UNCHANGED allStatesCache
       ELSE /\ allStatesCache' = [has |-> TRUE, data |-> ReadAll(calls[k].snapshot),
                                  timestamp |-> now]
            /\ UNCHANGED lightStateCache
    /\ calls' = [calls EXCEPT ![k] = IdleCall]
    /\ UNCHANGED <<pureVars, serverVars, rows>>

\* Time passes between two requests: every cache entry is older than its TTL.
StoreTick ==
    /\ \A k \in 1..MaxCalls : calls[k].pc = "idle"
    /\ Tick(PING_TIMEOUT_SEC)

\* The sheet is empty, or holds the row of a device that pings.
InitStore ==
    /\ arg = <<>>
    /\ res = <<>>
    /\ sheet = [c \in Chats |-> NullRow]
    /\ rows \in {<<>>, <<SheetRow("c1", LightCells(NullRow, TRUE, StartTime))>>}
    /\ Boot

NextStore ==
    \/ \E k \in 1..MaxCalls, op \in WriteOps, c \in MainChats, value \in BOOLEAN :
          CallWrite(k, op, c, value)
    \/ \E k \in 1..MaxCalls, op \in ReadOps, c \in MainChats : CallRead(k, op, c)
    \/ \E k \in 1..MaxCalls : Find(k)
    \/ \E k \in 1..MaxCalls : Write(k)
    \/ \E k \in 1..MaxCalls : Get(k)
    \/ \E k \in 1..MaxCalls : Set(k)
    \/ StoreTick

SpecStore == InitStore /\ [][NextStore]_vars

\* C17: the sheet never holds two rows with one chat id.
C17_OneRowPerChat ==
    \A c \in Chats : Cardinality({i \in 1..Len(rows) : rows[i].chat_id = c}) <= 1

\* No write for the chat is in flight: every write called so far has returned.
WritesDone(c) ==
    \A k \in 1..MaxCalls : ~(calls[k].pc # "idle" /\ calls[k].op \in WriteOps /\ calls[k].chat = c)

\* C18: once the writes for a chat have returned, what getLightState would
\* return for it from the cache, and what getAllLightStates would return
\* from the cache, is what the sheet holds.
C18_NoStaleRead ==
    /\ \A c \in Chats :
          (WritesDone(c) /\ getCached(lightStateCache, c, now).exists)
              => getCached(lightStateCache, c, now) = ReadOne(rows, c)
    /\ ((\A c \in Chats : WritesDone(c)) /\ getAllCached(allStatesCache, now))
              => allStatesCache.data = ReadAll(rows)

-----------------------------------------------------------------------------
(* The pinned live-status message on its own *)

\* Rows without a pinned message (after /start; with an address, no device)
\* and one that has its message.
PinRows ==
    { [NullRow EXCEPT !.exists = TRUE],
      Row(<<>>, "", <<>>, <<>>, "", CITY, STREET, HOUSE, FALSE, MODE_DTEK),
      Row(<<StartTime>>, "TRUE", <<StartTime - 100>>, <<>>, "m1", CITY, STREET, HOUSE, FALSE,
          MODE_FULL) }

InitPin ==
    /\ arg = <<>>
    /\ res = <<>>
    /\ sheet \in [Chats -> PinRows]
    /\ rows = <<>>
    /\ Boot

\* A caller (a pass, a ping, a notification, a command) runs
\* updatePinnedMessage(chatId, undefined, force) with the row as it is stored.
Refresh(c, force) ==
    /\ SetTq(updatePinnedMessage(Tq, c, force, getLightState(sheet, c), now))
    /\ UNCHANGED <<pureVars, storeVars, now, sheet, procVars, pausing, lastSentMessage,
                   delivered, memoVars>>

NextPin ==
    \/ \E c \in Chats, force \in BOOLEAN : Refresh(c, force)
    \/ \E i \in 1..MaxQueue : TaskDone(i)
    \/ NextBatch
    \/ \E d \in TickSteps : Tick(d)

SpecPin == InitPin /\ [][NextPin]_vars

\* C19: a pinned task sends a new status message only for a chat that has no
\* message handle stored; once pinned_message_id is set, every refresh edits
\* that message, so that a chat gets at most one status message.
C19_OnePinnedMessage ==
    [][\A c \in Chats : \A i \in 1..Len(batch) :
          (/\ batch' = RemoveAt(batch, i)
           /\ batch[i].kind = "pin" /\ batch[i].chat = c /\ ~batch[i].hasPinned)
          => sheet[c].pinned_message_id = ""]_vars

-----------------------------------------------------------------------------
(* A ping against a pass in flight *)

\* C23: the pass writes the Off transition of a chat only if, at the moment
\* of the write, the stored last ping is more than PING_TIMEOUT_SEC old: a
\* ping saved after the pass read its rows and before it writes is not
\* overwritten.
C23_NoOffOverFreshPing ==
    [][\A c \in MainChats :
          (pass.task[c].pc = "save_off" /\ pass'.task[c].pc = "notify") =>
              \/ ~IsValidTime(sheet[c].last_ping_time)
              \/ now - sheet[c].last_ping_time[1] > PING_TIMEOUT_SEC]_vars

-----------------------------------------------------------------------------
(* Pings while the store's reads can fail *)

\* GET /ping when the read of the sheet rejects: getLightState logs and
\* resolves to null from its catch block, and updatePingTime takes that for a
\* chat without a row (row?.ignored is undefined, !row is true).
PingReadFails(c) ==
    /\ ping[c].pc = "idle"
    /\ sheet[c].last_ping_time # FormatTime(now)
    /\ ping' = [ping EXCEPT ![c] = [IdlePing EXCEPT !.pc = "create", !.now = now]]
    /\ UNCHANGED <<pureVars, storeVars, now, sheet, pass, cmd, tgVars, memoVars>>

InitPingFault ==
    /\ arg = <<>>
    /\ res = <<>>
    /\ sheet \in {sh \in [Chats -> InitRows] : \A c \in Chats \ MainChats : sh[c] = NullRow}
    /\ Boot
    /\ rows = <<>>

NextPingFault ==
    \/ \E c \in MainChats : PingRead(c)
    \/ \E c \in MainChats : PingReadFails(c)
    \/ \E c \in MainChats : PingCreate(c)
    \/ \E c \in MainChats : PingSave(c)
    \/ \E c \in MainChats : PingNotify(c)
    \/ \E i \in 1..MaxQueue : TaskDone(i)
    \/ NextBatch
    \/ \E d \in TickSteps : Tick(d)

SpecPingFault == InitPingFault /\ [][NextPingFault]_vars

\* C25: a ping whose read of the store failed leaves the row the chat has:
\* light_state and state_start_time stay, and the greeting of a new
\* subscriber is not sent.
C25_ReadFailureKeepsRow ==
    [][\A c \in MainChats :
          (sheet[c].exists /\ ping[c].pc = "create" /\ ping'[c].pc = "idle") =>
              /\ sheet'[c].light_state = sheet[c].light_state
              /\ sheet'[c].light_start_time = sheet[c].light_start_time
              /\ delivered' = delivered]_vars

-----------------------------------------------------------------------------
(* Two calls of checkLightsStatus in flight together *)

\* setInterval starts a pass whether or not the last one has returned, and
\* GET /check-lights starts one on demand.  pass is the call whose
\* continuation runs next, arg the other call; the event loop may turn to the
\* other call at every await.
InitOverlap ==
    /\ arg = [IdlePass EXCEPT !.id = 2, !.of = 2]
    /\ res = <<>>
    /\ sheet \in {sh \in [Chats -> InitRows] : \A c \in Chats \ MainChats : sh[c] = NullRow}
    /\ BootWith([IdlePass EXCEPT !.of = 2])
    /\ rows = <<>>

Switch ==
    /\ pass' = arg
    /\ arg' = pass
    /\ UNCHANGED <<res, storeVars, now, sheet, ping, cmd, tgVars, memoVars>>

OverlapTick(d) ==
    /\ ~arg.running
    /\ Tick(d)

NextOverlap ==
    \/ PassStart
    \/ \E c \in MainChats : EvalStart(c)
    \/ \E c \in MainChats : SaveOff(c)
    \/ \E c \in MainChats : Apply(c)
    \/ \E c \in MainChats : Notify(c)
    \/ \E c \in MainChats : AwaitMsg(c)
    \/ \E c \in MainChats : AwaitAuto(c)
    \/ PassEnd
    \/ Switch
    \/ \E i \in 1..(2 * MaxQueue) : TaskDone(i)
    \/ NextBatch
    \/ \E d \in TickSteps : OverlapTick(d)

SpecOverlap == InitOverlap /\ [][NextOverlap]_vars

\* The other call is inside an outage evaluation of the chat: it has fetched
\* the summary and has not yet marked the chat checked.
OtherEvaluates(c) ==
    /\ arg.running /\ arg.task[c].mode = MODE_DTEK
    /\ arg.task[c].pc \in {"apply", "notify", "await_msg", "await_auto"}

\* C21: applyDtekSummary runs for a dtek_only chat only when no outage
\* evaluation of the chat was made in the last DTEK_CHECK_MINUTES minutes,
\* by this call of checkLightsStatus or by one that overlaps it; a pass inside
\* the interval only refreshes the pinned message.
C21_EvaluationsSpaced ==
    [][\A c \in MainChats :
          (pass.task[c].pc = "apply" /\ pass'.task[c].pc # "apply") =>
              /\ \/ dtekCheckTimestamps[c] = 0
                 \/ now - dtekCheckTimestamps[c] >= DTEK_CHECK_MINUTES * 60
              /\ ~OtherEvaluates(c)]_vars

\* An Off message of the chat is handed to the transport
OffDelivered(c) ==
    /\ delivered' = Sent(c, delivered'.text) /\ delivered'.text.kind = "off"
    /\ \E i \in 1..Len(batch) :
          batch[i].kind = "msg" /\ batch[i].chat = c /\ batch' = RemoveAt(batch, i)

\* C22: with two calls of checkLightsStatus in flight, one liveness timeout
\* is written once, over a row that is still On, and one Off message reaches
\* the chat.
C22_OneTransition ==
    [][\A c \in MainChats :
          /\ (pass.task[c].pc = "save_off" /\ pass'.task[c].pc = "notify") =>
                 sheet[c].light_state = "TRUE"
          /\ (OffDelivered(c) /\ determineMode(sheet[c]) \in {MODE_FULL, MODE_PING}) =>
                 ~(lastSentMessage[c].has /\ lastSentMessage[c].text.kind = "off")]_vars

-----------------------------------------------------------------------------
(* getDtekSummaryCached on its own *)

CacheTickSteps == {DTEK_CACHE_TTL_S - 1, DTEK_CACHE_TTL_S}

\* arg: for each address, the summary of the last fetch made for it.
\* res: the last call, what it returned and whether it fetched.
InitCache ==
    /\ arg = [t \in AddressTriples |-> [has |-> FALSE, v |-> NoSummary]]
    /\ res = [called |-> FALSE, triple |-> <<CITY, STREET, "">>, summary |-> NoSummary,
              fetched |-> FALSE]
    /\ sheet = [c \in Chats |-> NullRow]
    /\ Boot
    /\ rows = <<>>

\* One call getDtekSummaryCached(city, street, house_number); the source
\* answers with its own time or not at all.
Lookup(t) ==
    \E o \in getDtekSummaryCached(dtekCache, t[1], t[2], t[3], now) :
       /\ o.summary.updateTimestamp \in {<<>>, <<StartTime>>}
       /\ o.summary.message.kind = "no_outage" => o.summary.updateTimestamp # <<>>
       /\ dtekCache' = o.cache
       /\ res' = [called |-> TRUE, triple |-> t, summary |-> o.summary, fetched |-> o.fetched]
       /\ arg' = IF o.fetched THEN [arg EXCEPT ![t] = [has |-> TRUE, v |-> o.summary]]
                  ELSE arg
       /\ UNCHANGED <<storeVars, now, sheet, procVars, tgVars, dtekCheckTimestamps,
                      pinnedUpdateTimestamps, modeWriteMemo, userRateLimits>>

CacheTick(d) ==
    /\ now + d <= StartTime + DTEK_CACHE_TTL_S
    /\ now' = now + d
    /\ UNCHANGED <<pureVars, storeVars, sheet, procVars, tgVars, memoVars>>

NextCache ==
    \/ \E t \in AddressTriples : Lookup(t)
    \/ \E d \in CacheTickSteps : CacheTick(d)

SpecCache == InitCache /\ [][NextCache]_vars

IsFailure(summary) == summary.message.kind \in {"fetch_failed", "error"}

\* The entry of the cache that a call for the address reads
EntryOf(t) == dtekCache[dtekKey(t[1], t[2], t[3])]
IsFresh(t) == EntryOf(t).has /\ now - EntryOf(t).t < DTEK_CACHE_TTL_S

C27_FailureIsCached ==
    [][res' # res =>
         LET t == res'.triple
         IN  /\ (res'.fetched /\ IsFailure(res'.summary)) =>
                    /\ ~res'.summary.inferredOff
                    /\ dtekCache' = [dtekCache EXCEPT ![dtekKey(t[1], t[2], t[3])] =
                                         [has |-> TRUE, v |-> res'.summary, t |-> now]]
             /\ (IsFresh(t) /\ IsFailure(EntryOf(t).v)) =>
                    (~res'.fetched /\ res'.summary = EntryOf(t).v)]_vars

\* A failed fetch was cached, and a call one second before the end of the
\* window got the neutral summary from the cache.
C27_Witness ==
    /\ res.called /\ ~res.fetched /\ IsFailure(res.summary)
    /\ ~res.summary.inferredOff
    /\ EntryOf(res.triple).t = StartTime
    /\ now = StartTime + DTEK_CACHE_TTL_S - 1

\* C28: when the entry of the key has expired and the refresh fails, the call
\* returns the summary of the expired entry and the entry keeps it; the
\* neutral summary is returned only when the key had no entry.
C28_StaleKeptOnFailure ==
    [][(res' # res /\ res'.fetched /\ EntryOf(res'.triple).has
            /\ IsFailure(res'.summary)) =>
         /\ res'.summary = EntryOf(res'.triple).v
         /\ dtekCache'[dtekKey(res'.triple[1], res'.triple[2], res'.triple[3])].v
                = EntryOf(res'.triple).v]_vars

-----------------------------------------------------------------------------
(* What may write last_ping_time *)

\* C34: last_ping_time is the time of the last ping handled, or empty: it
\* changes only in the write of a ping, to that ping's time; a pass, its
\* timeout transition and an outage evaluation leave it as it is.
C34_OnlyPingsWriteLastPing ==
    [][\A c \in Chats :
          sheet'[c].last_ping_time # sheet[c].last_ping_time =>
              /\ ping[c].pc \in {"create", "save"}
              /\ ping'[c].pc # ping[c].pc
              /\ sheet'[c].last_ping_time = FormatTime(ping[c].now)]_vars

-----------------------------------------------------------------------------
(* The row saveAddress leaves for a chat that never pinged *)

\* C33: a chat that saved an address and never sent a ping is dtek_only for
\* the pass: when saveAddress returns for a chat whose row held no ping, or
\* that had no row, determineMode of the row the pass will read is dtek_only.
C33_AddressOnlyIsDtek ==
    [][\A k \in 1..MaxCalls :
          (/\ calls[k].pc = "write" /\ calls[k].op = "saveAddress"
           /\ calls'[k].pc = "idle"
           /\ ReadOne(rows, calls[k].chat).last_ping_time = <<>>)
          => determineMode(ReadOne(rows', calls[k].chat)) = MODE_DTEK]_vars

-----------------------------------------------------------------------------
(* Refreshes that are not forced, and a pin call that fails *)

\* The pinned task of a chat without a status message, when bot.pinChatMessage
\* rejects: formatMessage has run and bot.sendMessage has delivered the
\* message; the rejection skips db.savePinnedMessageId and
\* pinnedUpdateTimestamps.set and lands in the task's own catch, which logs.
\* The task resolves.
PinFails(i) ==
    /\ i \in 1..Len(batch)
    /\ batch[i].kind = "pin" /\ ~batch[i].hasPinned
    /\ batch' = RemoveAt(batch, i)
    /\ delivered' = Log(delivered, Sent(batch[i].chat, ReplyText("status")))
    /\ sheet' = FormatMessageWrite(sheet, batch[i])
    /\ IF Len(batch) = 1
       THEN processing' = (queue # <<>>) /\ pausing' = (queue # <<>>)
       ELSE UNCHANGED <<processing, pausing>>
    /\ UNCHANGED <<pureVars, storeVars, now, procVars, queue, lastSentMessage, memoVars>>

\* Callers that do not force: the pass (twice for a row without a
\* transition), a ping of a chat that is On, /dtek.
NextRefresh ==
    \/ \E c \in Chats : Refresh(c, FALSE)
    \/ \E i \in 1..MaxQueue : TaskDone(i)
    \/ \E i \in 1..MaxQueue : PinFails(i)
    \/ NextBatch
    \/ \E d \in TickSteps : Tick(d)

SpecRefresh == InitPin /\ [][NextRefresh]_vars

\* The pinned task i of chat c settles with its edit or send delivered.
PinDelivered(c, i) ==
    /\ i \in 1..Len(batch)
    /\ batch[i].kind = "pin" /\ batch[i].chat = c
    /\ batch' = RemoveAt(batch, i)
    /\ delivered'.chat = c

\* C35: refreshes that are not forced are MIN_PINNED_UPDATE_S apart: no edit
\* or send of the pinned message reaches the transport less than 30 s after
\* the last one of the same chat.
C35_RefreshesSpaced ==
    [][\A c \in Chats : \A i \in 1..MaxQueue :
          PinDelivered(c, i) =>
              ~(/\ pinnedUpdateTimestamps[c] # 0
                /\ now - pinnedUpdateTimestamps[c] < MIN_PINNED_UPDATE_S)]_vars

\* C36: a pinned task that sends a new status message stores its handle,
\* whether or not the pin call that follows the send succeeds, so that the
\* next refresh edits that message.
C36_HandleKeptWhenPinFails ==
    [][\A c \in Chats : \A i \in 1..MaxQueue :
          (PinDelivered(c, i) /\ ~batch[i].hasPinned)
              => sheet'[c].pinned_message_id # ""]_vars

-----------------------------------------------------------------------------
(* The TelegramQueue under a burst of adds *)

\* One chat with a row; nothing is queued.
InitBurst ==
    /\ arg = <<>>
    /\ res = <<>>
    /\ sheet \in {[c \in Chats |-> IF c \in MainChats THEN row ELSE NullRow] : row \in PinRows}
    /\ rows = <<>>
    /\ Boot

\* telegramQueue.add(fn) with the closure of a forced pinned refresh, at any
\* moment: before a drain loop, while a batch is in flight, in the pause,
\* after the loop has ended.
Add(c) ==
    /\ LET tq == updatePinnedMessage(Tq, c, TRUE, getLightState(sheet, c), now)
       IN  /\ Len(tq.queue) + Len(tq.batch) <= MaxBurst
           /\ queue' = tq.queue
           /\ processing' = tq.processing
           /\ batch' = tq.batch
    /\ UNCHANGED <<pureVars, storeVars, now, sheet, procVars, pausing, lastSentMessage,
                   delivered, memoVars>>

NextBurst ==
    \/ \E c \in MainChats : Add(c)
    \/ \E i \in 1..TELEGRAM_LIMIT : TaskDone(i)
    \/ \E i \in 1..TELEGRAM_LIMIT : PinFails(i)
    \/ NextBatch

SpecBurst == InitBurst /\ [][NextBurst]_vars

\* C37: at most TELEGRAM_LIMIT tasks handed to TelegramQueue.add are in
\* flight at any moment, however add interleaves with the drain loop, of
\* which there is one: tasks are in flight only while processing is set, and
\* none during its pause.
C37_InFlightBounded ==
    /\ Len(batch) <= TELEGRAM_LIMIT
    /\ batch # <<>> => processing /\ ~pausing
    /\ pausing => processing

\* A full batch is in flight, more is queued behind it, and an earlier batch
\* has been through.
C37_Witness ==
    /\ Len(batch) = TELEGRAM_LIMIT
    /\ queue # <<>>
    /\ processing
    /\ delivered # NoCall

\* C38: the drain loop pauses between the end of one batch and the start of
\* the next: a batch that starts after another one has ended starts out of
\* the pause, also when nothing was queued at the end of that batch and a
\* task is added right after it.
C38_PauseBetweenBatches ==
    [][(batch = <<>> /\ batch' # <<>> /\ delivered # NoCall) => pausing]_vars

-----------------------------------------------------------------------------
(* A caller that awaits its add, among adds of others *)

Caller == <<"caller">>

\* await telegramQueue.add(fn): the caller hands one task over and goes on
\* when its promise settles; it may then add again.
AddAwaited(c) ==
    /\ ~Pending(Caller)
    /\ LET tq == TqAdd(Tq, PinTask(c, getLightState(sheet, c), Caller), now)
       IN  /\ Len(tq.queue) + Len(tq.batch) <= TELEGRAM_LIMIT + 1
           /\ queue' = tq.queue
           /\ processing' = tq.processing
           /\ batch' = tq.batch
    /\ UNCHANGED <<pureVars, storeVars, now, sheet, procVars, pausing, lastSentMessage,
                   delivered, memoVars>>

\* One chat whose status message is pinned; nothing is queued.
InitDrain ==
    /\ InitBurst
    /\ \A c \in MainChats : sheet[c].pinned_message_id # ""

NextDrain ==
    \/ \E c \in MainChats : Add(c)
    \/ \E c \in MainChats : AddAwaited(c)
    \/ \E i \in 1..TELEGRAM_LIMIT : TaskDone(i)
    \/ NextBatch

\* The timer of the pause fires, and a task that was started settles.
SpecDrain ==
    /\ InitDrain /\ [][NextDrain]_vars
    /\ WF_vars(NextBatch)
    /\ WF_vars(\E i \in 1..TELEGRAM_LIMIT : TaskDone(i))

\* The caller's task waits in the queue / is in flight
Queued(owner) == \E i \in 1..Len(queue) : queue[i].owner = owner
InFlight(owner) == \E i \in 1..Len(batch) : batch[i].owner = owner

\* C40: a task handed to TelegramQueue.add is started in the end, given that
\* the tasks started before it settle: it leaves the queue only into a
\* batch, it is held once, and add's promise settles when that task does.
C40_EveryTaskStarted ==
    /\ Queued(Caller) ~> InFlight(Caller)
    /\ [](Cardinality({i \in 1..Len(queue) : queue[i].owner = Caller})
           + Cardinality({i \in 1..Len(batch) : batch[i].owner = Caller}) <= 1)
    /\ [][/\ (Queued(Caller) /\ ~Queued(Caller)') => InFlight(Caller)'
          /\ (InFlight(Caller) /\ ~InFlight(Caller)') =>
                 /\ ~Queued(Caller)'
                 /\ \E i \in 1..Len(batch) :
                       batch[i].owner = Caller /\ batch' = RemoveAt(batch, i)]_vars

\* The caller's task had to wait and is now in flight on its own, after
\* other tasks went through.
C40_Witness ==
    /\ InFlight(Caller)
    /\ Len(batch) = 1 /\ queue = <<>>
    /\ delivered # NoCall

-----------------------------------------------------------------------------
(* updateModeIfNeeded across its await *)

\* res is what getAllLightStates returned to a pass (its row hints); arg
\* holds, per slot, the call of updateModeIfNeeded that awaits db.setMode:
\* <<chat, actualMode>>, or <<>>.
InitModeWrite ==
    /\ sheet \in {[c \in Chats |-> IF c \in MainChats THEN row ELSE NullRow] : row \in ModeRows}
    /\ res = sheet
    /\ arg = [k \in 1..MaxCalls |-> <<>>]
    /\ rows = <<>>
    /\ Boot

\* updateModeIfNeeded(chatId, row.mode, row), up to await db.setMode: called
\* by a closure of the pass with the row the pass read, or by updatePingTime
\* or applyAddressUpdate with the row as stored.  A call that returns before
\* the await leaves nothing behind.
ModeCall(k, c, hinted) ==
    /\ arg[k] = <<>>
    /\ LET row == getLightState(IF hinted THEN res ELSE sheet, c)
           actualMode == determineMode(row)
       IN  /\ row.exists
           /\ row.mode # actualMode
           /\ ~(modeWriteMemo[c].mode = actualMode /\ now - modeWriteMemo[c].t < MODE_MEMO_S)
           /\ arg' = [arg EXCEPT ![k] = <<c, actualMode>>]
    /\ UNCHANGED <<res, storeVars, serverVars>>

\* db.setMode has written column K and resolved; the call goes on with
\* modeWriteMemo.set(chatId, { mode: actualMode, t: Date.now() }) and returns.
ModeWritten(k) ==
    /\ arg[k] # <<>>
    /\ sheet' = setMode(sheet, arg[k][1], arg[k][2])
    /\ modeWriteMemo' = [modeWriteMemo EXCEPT ![arg[k][1]] = [mode |-> arg[k][2], t |-> now]]
    /\ arg' = [arg EXCEPT ![k] = <<>>]
    /\ UNCHANGED <<res, storeVars, now, procVars, tgVars, dtekCache, dtekCheckTimestamps,
                   pinnedUpdateTimestamps, userRateLimits>>

\* A ping is written (updatePingTime's saveLightState): the row has a ping
\* from now on.
PingWritten(c) ==
    /\ sheet[c].exists
    /\ sheet[c].last_ping_time # FormatTime(now)
    /\ sheet' = saveLightState(sheet, c, now, TRUE, now, NoDuration)
    /\ UNCHANGED <<pureVars, storeVars, now, procVars, tgVars, memoVars>>

\* Time passes between requests; a pass reads its rows again.
ModeTick(d) ==
    /\ \A k \in 1..MaxCalls : arg[k] = <<>>
    /\ now + d <= StartTime + MaxElapsed
    /\ now' = now + d
    /\ res' = sheet
    /\ UNCHANGED <<arg, storeVars, sheet, procVars, tgVars, memoVars>>

NextModeWrite ==
    \/ \E k \in 1..MaxCalls, c \in MainChats, hinted \in BOOLEAN : ModeCall(k, c, hinted)
    \/ \E k \in 1..MaxCalls : ModeWritten(k)
    \/ \E c \in MainChats : PingWritten(c)
    \/ \E d \in TickSteps : ModeTick(d)

SpecModeWrite == InitModeWrite /\ [][NextModeWrite]_vars

\* C31: updateModeIfNeeded writes the mode only when the mode it computed
\* differs from the stored one, and it writes one value for one chat at most
\* once in MODE_MEMO_S seconds, however evaluations, pings and address
\* updates interleave.
C31_ModeWrittenOnce ==
    [][\A k \in 1..MaxCalls :
          (arg[k] # <<>> /\ arg'[k] = <<>>) =>
              /\ sheet[arg[k][1]].mode # arg[k][2]
              /\ ~(/\ modeWriteMemo[arg[k][1]].mode = arg[k][2]
                   /\ now - modeWriteMemo[arg[k][1]].t < MODE_MEMO_S)]_vars

-----------------------------------------------------------------------------
(* Two chats whose rows differ in the stored mode only *)

Leader == "c1"
Follower == "c2"

\* The rows of both chats are equal but for column K.
InitTwin ==
    /\ arg = <<>>
    /\ res = <<>>
    /\ \E row \in InitRows \cup PassRows,
          mode \in {"", MODE_NONE, MODE_PING, MODE_DTEK, MODE_FULL} :
          /\ row.exists
          /\ sheet = [c \in Chats |-> IF c = Leader THEN row ELSE [row EXCEPT !.mode = mode]]
    /\ rows = <<>>
    /\ Boot

\* Both chats are at the same point of the pass and of the ping handler,
\* and the transport has nothing to do.
Quiet == queue = <<>> /\ batch = <<>>
AtSamePoint ==
    /\ pass.task[Leader].pc = pass.task[Follower].pc
    /\ ping[Leader].pc = ping[Follower].pc

\* Both chats get the same pings and passes: passes and clock steps are
\* shared, each step for the leader is followed by the same step for the
\* follower, and the transport delivers what a step queued before the next.
PassTurn(c) ==
    /\ Quiet
    /\ IF c = Leader THEN AtSamePoint ELSE pass.task[Leader].pc # pass.task[Follower].pc
PingTurn(c) ==
    /\ Quiet
    /\ IF c = Leader THEN AtSamePoint ELSE ping[Leader].pc # ping[Follower].pc

NextTwin ==
    \/ Quiet /\ AtSamePoint /\ PassStart
    \/ Quiet /\ AtSamePoint /\ PassEnd
    \/ Quiet /\ AtSamePoint /\ \E d \in TickSteps : Tick(d)
    \/ \E c \in Chats : PassTurn(c) /\ EvalStart(c)
    \/ \E c \in Chats : PassTurn(c) /\ SaveOff(c)
    \/ \E c \in Chats : PassTurn(c) /\ Apply(c)
    \/ \E c \in Chats : PassTurn(c) /\ Notify(c)
    \/ \E c \in Chats : PassTurn(c) /\ AwaitMsg(c)
    \/ \E c \in Chats : PassTurn(c) /\ AwaitAuto(c)
    \/ \E c \in Chats : PingTurn(c) /\ PingRead(c)
    \/ \E c \in Chats : PingTurn(c) /\ PingSave(c)
    \/ \E c \in Chats : PingTurn(c) /\ PingNotify(c)
    \/ \E i \in 1..MaxQueue : TaskDone(i)
    \/ NextBatch

SpecTwin == InitTwin /\ [][NextTwin]_vars

\* What a chat's record and its handlers hold, without the stored mode
Unmoded(row) == [row EXCEPT !.mode = ""]
Observed(c) ==
    [row |-> Unmoded(sheet[c]),
     read |-> Unmoded(pass.rows[c]),
     task |-> pass.task[c],
     ping |-> [ping[c] EXCEPT !.row = Unmoded(@)],
     last |-> lastSentMessage[c],
     checked |-> dtekCheckTimestamps[c],
     pinned |-> pinnedUpdateTimestamps[c]]

=============================================================================
